---- MODULE Spec2Model ----
(***************************************************************************)
(* Canonical JSON codec of prost-types (src/prost-types/src/serde.rs).     *)
(*                                                                         *)
(* The codec is a library of visitors (decode) and serializers (encode).   *)
(* The model is a state machine whose steps are single calls of the        *)
(* library: a serializer call puts a JSON fragment on `wire`, a            *)
(* deserializer call feeds one token (a fresh one, or the one a JSON       *)
(* reader makes of the fragment on the wire) to a visitor and records the  *)
(* result.                                                                 *)
(*                                                                         *)
(* Machine numbers are modelled at a reduced width so that every value of  *)
(* a type can be enumerated: i32/u32 have BITS32 bits, i64/u64 BITS64      *)
(* bits, f64 a significand of MANT bits and f32 one of MANT32 bits, with   *)
(* MANT32 < BITS32 < MANT < BITS64 as for 24 < 32 < 53 < 64.  A finite     *)
(* float is a sign and a magnitude counted in units of f64::EPSILON        *)
(* (2^-(MANT-1)); it is representable when its magnitude has at most MANT  *)
(* significant bits.  Strings are sequences of one-character strings.      *)
(***************************************************************************)
EXTENDS Integers, Sequences, FiniteSets

VARIABLES codec, input, output, wire, origin, calls

vars == <<codec, input, output, wire, origin, calls>>

\* Width of i32/u32 in the model; every other width is derived from it.
BITS32 == 4
\* Longest byte sequence handed to the byte codec.
MaxBytes == 3
\* Most nodes (values, or tokens) of a dynamic value handed to its codec.
MaxNodes == 3
\* The most elements of a sequence on the wire or in a repeated field
MaxLen == 3
\* The most entries of a mapping on the wire or in a map field
MaxEntries == 2

MANT == BITS32 + 2
BITS64 == BITS32 + 4
MANT32 == BITS32 - 1
FRAC == MANT - 1
\* Number of units in 1.0: one unit is f64::EPSILON.
ONE == 2^FRAC
\* Floats of magnitude 2^F64_MAX_EXP and above are infinite.
F64_MAX_EXP == BITS64 + 4
F32_MAX_EXP == BITS64 + 2

(***************************************************************************)
(* Results                                                                 *)
(***************************************************************************)
Ok(v) == [ok |-> TRUE, v |-> v]
Err(e) == [ok |-> FALSE, v |-> e]
\* A call that aborts the thread instead of returning.
Panic == [ok |-> FALSE, v |-> "panic"]
Some(v) == [some |-> TRUE, v |-> v]
None == [some |-> FALSE]
\* Result::map(Some)
MapSome(r) == IF r.ok THEN Ok(Some(r.v)) ELSE r

(***************************************************************************)
(* Integer types                                                           *)
(***************************************************************************)
I32 == [name |-> "i32", signed |-> TRUE, bits |-> BITS32]
U32 == [name |-> "u32", signed |-> FALSE, bits |-> BITS32]
I64 == [name |-> "i64", signed |-> TRUE, bits |-> BITS64]
U64 == [name |-> "u64", signed |-> FALSE, bits |-> BITS64]
IntTypes == {I32, U32, I64, U64}

MIN(T) == IF T.signed THEN -(2^(T.bits - 1)) ELSE 0
MAX(T) == IF T.signed THEN 2^(T.bits - 1) - 1 ELSE 2^T.bits - 1
InRange(T, n) == MIN(T) <= n /\ n <= MAX(T)
\* T::try_from(n)
TryFrom(T, n) == IF InRange(T, n) THEN Ok(n) ELSE Err("try_from")
\* n as T between integer types: keeps the low bits (two's complement).
WrapAs(T, n) ==
    LET m == n % (2^T.bits)
    IN IF T.signed /\ m > MAX(T) THEN m - 2^T.bits ELSE m

(***************************************************************************)
(* Floats                                                                  *)
(***************************************************************************)
Fin(neg, m) == [k |-> "fin", neg |-> neg, m |-> m]
Inf(neg) == [k |-> "inf", neg |-> neg, m |-> 0]
NaN == [k |-> "nan", neg |-> FALSE, m |-> 0]

RECURSIVE BitLen(_)
BitLen(n) == IF n = 0 THEN 0 ELSE 1 + BitLen(n \div 2)

\* n rounded to the nearest number with at most p significant bits that is
\* a multiple of unit, ties to even.
RoundTo(n, ulp) ==
    IF 2 * (n % ulp) > ulp \/ (2 * (n % ulp) = ulp /\ (n \div ulp) % 2 = 1)
    THEN (n \div ulp + 1) * ulp
    ELSE (n \div ulp) * ulp
\* The weight of the last bit kept when sh low bits are dropped.
Ulp(sh, unit) == IF sh > 0 /\ 2^sh > unit THEN 2^sh ELSE unit
RoundNat(n, p, unit) == RoundTo(n, Ulp(BitLen(n) - p, unit))

\* The largest finite magnitude of the float type with p significant bits.
MaxExp(p) == IF p = MANT THEN F64_MAX_EXP ELSE F32_MAX_EXP
MaxFinite(p) == (2^p - 1) * 2^(MaxExp(p) - p) * ONE
\* A rounded magnitude above the largest finite one is infinite.
MkFloat(neg, m, p) == IF m > MaxFinite(p) THEN Inf(neg) ELSE Fin(neg, m)

\* n as f64 (p = MANT) and n as f32 (p = MANT32) for an integer n: the
\* nearest float.
IntAsFloat(n, p) ==
    LET a == IF n < 0 THEN -n ELSE n
    IN MkFloat(n < 0, RoundNat(a * ONE, p, 1), p)
IntAsF64(n) == IntAsFloat(n, MANT)
\* x as f32 for an f64 x: the nearest f32, infinite beyond the f32 range.
F64AsF32(x) ==
    IF x.k = "fin" THEN MkFloat(x.neg, RoundNat(x.m, MANT32, 1), MANT32) ELSE x
\* x as f64 for an f32 x: exact.
F32AsF64(x) == x

\* The signed number of units of a finite float.
Num(x) == IF x.neg THEN -x.m ELSE x.m
\* x > y and x < y of IEEE 754, y finite: false when x is NaN.
FGt(x, y) ==
    CASE x.k = "nan" -> FALSE
      [] x.k = "inf" -> ~x.neg
      [] OTHER -> Num(x) > Num(y)
FLt(x, y) ==
    CASE x.k = "nan" -> FALSE
      [] x.k = "inf" -> x.neg
      [] OTHER -> Num(x) < Num(y)
\* (x.trunc() - x).abs() > f64::EPSILON: inf - inf is NaN, which compares false.
FractionAboveEpsilon(x) == x.k = "fin" /\ x.m % ONE > 1
\* x as T for a float x: truncates toward zero, saturates, NaN gives 0.
FloatAs(T, x) ==
    CASE x.k = "nan" -> 0
      [] x.k = "inf" -> IF x.neg THEN MIN(T) ELSE MAX(T)
      [] OTHER ->
           LET t == IF x.neg THEN -(x.m \div ONE) ELSE x.m \div ONE
           IN IF t < MIN(T) THEN MIN(T) ELSE IF t > MAX(T) THEN MAX(T) ELSE t

\* The finite f64 magnitudes below 2^e (in units), all representable.
Magnitudes(p, e) ==
    (0 .. 2^p - 1) \cup
    { s * 2^j : s \in 2^(p - 1) .. 2^p - 1, j \in 0 .. e + FRAC - p }
F64Values ==
    { Fin(neg, m) : neg \in BOOLEAN, m \in Magnitudes(MANT, F64_MAX_EXP) }
      \cup { Inf(TRUE), Inf(FALSE), NaN }
F32Values ==
    { Fin(neg, m) : neg \in BOOLEAN, m \in Magnitudes(MANT32, F32_MAX_EXP) }
      \cup { Inf(TRUE), Inf(FALSE), NaN }

(***************************************************************************)
(* Strings: str::parse and to_string                                       *)
(***************************************************************************)
Digits == <<"0", "1", "2", "3", "4", "5", "6", "7", "8", "9">>
IsDigit(c) == \E i \in 1 .. 10 : Digits[i] = c
DigitVal(c) == (CHOOSE i \in 1 .. 10 : Digits[i] = c) - 1
AllDigits(s) == \A i \in 1 .. Len(s) : IsDigit(s[i])

RECURSIVE DigitsVal(_)
DigitsVal(s) ==
    IF s = <<>> THEN 0
    ELSE 10 * DigitsVal(SubSeq(s, 1, Len(s) - 1)) + DigitVal(s[Len(s)])

RECURSIVE UDigits(_)
UDigits(n) ==
    IF n < 10 THEN <<Digits[n + 1]>>
    ELSE UDigits(n \div 10) \o <<Digits[(n % 10) + 1]>>
\* n.to_string() of an integer
to_string(n) == IF n < 0 THEN <<"-">> \o UDigits(-n) ELSE UDigits(n)

\* The index of the first character of s that is in set, 0 when none is.
Find(s, set) ==
    IF \E i \in 1 .. Len(s) : s[i] \in set
    THEN CHOOSE i \in 1 .. Len(s) :
           s[i] \in set /\ \A j \in 1 .. i - 1 : s[j] \notin set
    ELSE 0
Contains(s, c) == Find(s, {c}) # 0
EndsWith(s, t) ==
    Len(s) >= Len(t) /\ SubSeq(s, Len(s) - Len(t) + 1, Len(s)) = t
StripSuffix(s, c) ==
    IF s # <<>> /\ s[Len(s)] = c THEN Some(SubSeq(s, 1, Len(s) - 1)) ELSE None

\* value.parse::<T>() of an integer type: an optional sign ('-' only for a
\* signed type), then one or more digits; an error on overflow.
ParseInt(T, s) ==
    LET signedHead == s # <<>> /\ (s[1] = "+" \/ (s[1] = "-" /\ T.signed))
        body == IF signedHead THEN Tail(s) ELSE s
        n == IF s # <<>> /\ s[1] = "-" THEN -DigitsVal(body) ELSE DigitsVal(body)
    IN IF body = <<>> \/ ~AllDigits(body) THEN Err("parse_int")
       ELSE IF ~InRange(T, n) THEN Err("parse_int_overflow")
       ELSE Ok(n)

\* The float nearest to d * 10^e, with at most p significant bits.
DecToFloat(neg, d, e, p) ==
    IF d = 0 THEN Fin(neg, 0)
    ELSE IF e >= 0
    THEN IF e > 4 \/ d * 10^e >= 2^F64_MAX_EXP THEN Inf(neg)
         ELSE MkFloat(neg, RoundNat(d * 10^e * ONE, p, 1), p)
    ELSE LET num == d * ONE * 4
             q == num \div 10^(-e)
             sticky == num % 10^(-e) # 0
             y == IF sticky /\ q % 2 = 0 THEN q + 1 ELSE q
         IN MkFloat(neg, RoundNat(y, p, 4) \div 4, p)

Lower(c) ==
    CASE c = "N" -> "n" [] c = "A" -> "a" [] c = "I" -> "i"
      [] c = "F" -> "f" [] c = "T" -> "t" [] c = "Y" -> "y" [] OTHER -> c
LowerStr(s) == [i \in 1 .. Len(s) |-> Lower(s[i])]

\* The text of a float as str::parse reads it:
\* [+-] ( inf | infinity | nan | digits [. digits] [ (e|E) [+-] digits ] ),
\* with at least one digit before the exponent.  A number is d * 10^e.
DecimalError(neg) == [k |-> "err", neg |-> neg, d |-> 0, e |-> 0]
\* The digits before and after the point, and the exponent.
ParseMantissa(neg, ip, fp, e) ==
    IF AllDigits(ip) /\ AllDigits(fp) /\ Len(ip) + Len(fp) >= 1 /\ e.ok
    THEN [k |-> "num", neg |-> neg, d |-> DigitsVal(ip \o fp), e |-> e.v - Len(fp)]
    ELSE DecimalError(neg)
SplitAtPoint(neg, mant, dot, e) ==
    IF dot = 0 THEN ParseMantissa(neg, mant, <<>>, e)
    ELSE ParseMantissa(neg, SubSeq(mant, 1, dot - 1),
                       SubSeq(mant, dot + 1, Len(mant)), e)
ParseExponentDigits(neg, digits) ==
    IF digits = <<>> \/ ~AllDigits(digits) THEN Err("exponent")
    ELSE Ok(IF neg THEN -DigitsVal(digits) ELSE DigitsVal(digits))
ParseExponent(expo) ==
    IF expo # <<>> /\ expo[1] \in {"+", "-"}
    THEN ParseExponentDigits(expo[1] = "-", Tail(expo))
    ELSE ParseExponentDigits(FALSE, expo)
ParseNumber(neg, mant, e) == SplitAtPoint(neg, mant, Find(mant, {"."}), e)
SplitAtExponent(neg, rest, ePos) ==
    IF ePos = 0 THEN ParseNumber(neg, rest, Ok(0))
    ELSE ParseNumber(neg, SubSeq(rest, 1, ePos - 1),
                     ParseExponent(SubSeq(rest, ePos + 1, Len(rest))))
ParseUnsigned(neg, rest) ==
    IF rest = <<>> THEN DecimalError(neg)
    ELSE IF LowerStr(rest) \in {<<"i", "n", "f">>,
                                <<"i", "n", "f", "i", "n", "i", "t", "y">>}
    THEN [k |-> "inf", neg |-> neg, d |-> 0, e |-> 0]
    ELSE IF LowerStr(rest) = <<"n", "a", "n">>
    THEN [k |-> "nan", neg |-> neg, d |-> 0, e |-> 0]
    ELSE SplitAtExponent(neg, rest, Find(rest, {"e", "E"}))
ParseDecimal(s) ==
    ParseUnsigned(s # <<>> /\ s[1] = "-",
                  IF s # <<>> /\ s[1] \in {"+", "-"} THEN Tail(s) ELSE s)

\* The float of a parsed text.
FloatOfDecimal(t, p) ==
    CASE t.k = "num" -> Ok(DecToFloat(t.neg, t.d, t.e, p))
      [] t.k = "inf" -> Ok(Inf(t.neg))
      [] t.k = "nan" -> Ok([k |-> "nan", neg |-> t.neg, m |-> 0])
      [] OTHER -> Err("parse_float")
\* value.parse::<f64>() (p = MANT) and value.parse::<f32>() (p = MANT32)
ParseFloat(s, p) == FloatOfDecimal(ParseDecimal(s), p)

(***************************************************************************)
(* The token-dispatch protocol (serde::de::Visitor) and the emission       *)
(* protocol (serde::Serializer)                                            *)
(***************************************************************************)
\* A token carries its payload in the field of its kind: b, n, x or s.
TBool(b) == [t |-> "bool", b |-> b]
TI64(n) == [t |-> "i64", n |-> n]
TU64(n) == [t |-> "u64", n |-> n]
TF64(x) == [t |-> "f64", x |-> x]
TStr(s) == [t |-> "str", s |-> s]
TUnit == [t |-> "unit"]
TNone == [t |-> "none"]
\* A byte string, the token of a binary format: no visitor of the file has a
\* visit_bytes.
TBytes == [t |-> "bytes"]
\* The default of every visit_* method a visitor does not implement.
Unexpected == Err("invalid_type")
\* A call on a SeqAccess, MapAccess, SerializeSeq or SerializeMap: whether
\* it returned Ok, the length it announced and the fragment it wrote.
Call(op, ok, len, frag) == [op |-> op, ok |-> ok, len |-> len, frag |-> frag]
\* What a collection codec returns, and the calls it made on the way.
Run(r, made) == [r |-> r, calls |-> made]

(***************************************************************************)
(* mod i32, u32, i64, u64: the visitor of integer type T                   *)
(***************************************************************************)
Int_visit_i64(T, value) ==
    CASE T = I64 -> Ok(value)
      [] T = U64 -> Unexpected
      [] OTHER -> TryFrom(T, value)

Int_visit_u64(T, value) ==
    IF T = U64 THEN Ok(value) ELSE TryFrom(T, value)

Int_visit_f64(T, value) ==
    IF \/ FractionAboveEpsilon(value)
       \/ FGt(value, IntAsF64(MAX(T)))
       \/ FLt(value, IntAsF64(MIN(T)))
    THEN Err("invalid_type")
    ELSE Ok(FloatAs(T, value))

\* .and_then(|x| self.visit_f64(x))
Int_and_then_visit_f64(T, x) == IF x.ok THEN Int_visit_f64(T, x.v) ELSE x

Int_visit_str(T, value) ==
    IF Contains(value, "e") \/ Contains(value, "E") \/ EndsWith(value, <<".", "0">>)
    THEN Int_and_then_visit_f64(T, ParseFloat(value, MANT))
    ELSE ParseInt(T, value)

Int_visit(T, tok) ==
    CASE tok.t = "i64" -> Int_visit_i64(T, tok.n)
      [] tok.t = "u64" -> Int_visit_u64(T, tok.n)
      [] tok.t = "f64" -> Int_visit_f64(T, tok.x)
      [] tok.t = "str" -> Int_visit_str(T, tok.s)
      [] tok.t = "unit" -> Ok(0)
      [] OTHER -> Unexpected

(***************************************************************************)
(* mod i32_opt, u32_opt, i64_opt, u64_opt                                  *)
(***************************************************************************)
IntOpt_visit_i64(T, value) ==
    CASE T = I64 -> Ok(Some(value))
      [] T = U64 -> Unexpected
      [] OTHER -> MapSome(TryFrom(T, value))

IntOpt_visit_u64(T, value) ==
    IF T = U64 THEN Ok(Some(value)) ELSE MapSome(TryFrom(T, value))

IntOpt_visit_f64(T, value) ==
    IF \/ FractionAboveEpsilon(value)
       \/ FGt(value, IntAsF64(MAX(T)))
       \/ FLt(value, IntAsF64(MIN(T)))
    THEN Err("invalid_type")
    ELSE Ok(Some(FloatAs(T, value)))

IntOpt_and_then_visit_f64(T, x) == IF x.ok THEN IntOpt_visit_f64(T, x.v) ELSE x

IntOpt_visit_str(T, value) ==
    IF Contains(value, "e") \/ Contains(value, "E") \/ EndsWith(value, <<".", "0">>)
    THEN IntOpt_and_then_visit_f64(T, ParseFloat(value, MANT))
    ELSE MapSome(ParseInt(T, value))

IntOpt_visit(T, tok) ==
    CASE tok.t = "i64" -> IntOpt_visit_i64(T, tok.n)
      [] tok.t = "u64" -> IntOpt_visit_u64(T, tok.n)
      [] tok.t = "f64" -> IntOpt_visit_f64(T, tok.x)
      [] tok.t = "str" -> IntOpt_visit_str(T, tok.s)
      [] tok.t \in {"unit", "none"} -> Ok(None)
      [] OTHER -> Unexpected

\* A serializer that writes the integer as a JSON number, as the derived
\* one would: what C2 tells the serializer below from.
Int_serialize_number(T, value) ==
    Ok(IF T.signed THEN TI64(value) ELSE TU64(value))

\* i64::I64Serializer, u64::U64Serializer: serialize_str(&value.to_string())
Int_serialize(T, value) == Ok(TStr(to_string(value)))
\* i64_opt::serialize, u64_opt::serialize
IntOpt_serialize(T, value) ==
    IF value.some THEN Int_serialize(T, value.v) ELSE Ok(TUnit)

(***************************************************************************)
(* mod enum_serde, enum_opt: the codec of an enum type E.  E supplies      *)
(* FromStr (name to variant), TryFrom<i32>, Into<i32>, ToString and        *)
(* Default; a variant is a name and an ordinal.                            *)
(***************************************************************************)
\* A proto3 enum: its default is the variant of ordinal 0.
Proto3Enum ==
    [variants |-> { [name |-> <<"F", "O", "O">>, ord |-> 0],
                    [name |-> <<"B", "A", "R">>, ord |-> 1],
                    [name |-> <<"N", "E", "G">>, ord |-> -1] },
     default |-> 0]
\* A proto2 enum whose first variant, its default, has ordinal 1.
Proto2Enum ==
    [variants |-> { [name |-> <<"X">>, ord |-> 1],
                    [name |-> <<"Y">>, ord |-> 3] },
     default |-> 1]
EnumTypes == {Proto3Enum, Proto2Enum}
\* No enum: what a codec of no enum is instantiated with.
NoEnum == [variants |-> {}, default |-> 0]

Ordinals(E) == { v.ord : v \in E.variants }
Names(E) == { v.name : v \in E.variants }
\* T::from_str(value) followed by .into()
from_str(E, value) ==
    IF value \in Names(E)
    THEN Ok((CHOOSE v \in E.variants : v.name = value).ord)
    ELSE Err("from_str")
\* T::try_from(n) followed by .to_string()
NameOf(E, n) == (CHOOSE v \in E.variants : v.ord = n).name

\* A visitor that takes an unknown name for the default variant, as it does
\* an unknown number: what C6 tells visit_str from.
Enum_visit_str_or_default(E, value) ==
    LET r == from_str(E, value)
    IN IF r.ok THEN Ok(r.v) ELSE Ok(E.default)

Enum_visit_str(E, value) ==
    LET r == from_str(E, value)
    IN IF r.ok THEN Ok(r.v) ELSE Err("invalid_value")

Enum_visit_i64(E, value) ==
    IF WrapAs(I32, value) \in Ordinals(E)
    THEN Ok(WrapAs(I32, value))
    ELSE Ok(E.default)

Enum_visit_f64(E, value) == Enum_visit_i64(E, FloatAs(I64, value))

Enum_visit_u64(E, value) == Enum_visit_i64(E, WrapAs(I64, value))

\* Ok(Self::Value::default()) with Self::Value = i32
Enum_visit_unit(E) == Ok(0)

Enum_visit(E, tok) ==
    CASE tok.t = "str" -> Enum_visit_str(E, tok.s)
      [] tok.t = "i64" -> Enum_visit_i64(E, tok.n)
      [] tok.t = "f64" -> Enum_visit_f64(E, tok.x)
      [] tok.t = "u64" -> Enum_visit_u64(E, tok.n)
      [] tok.t = "unit" -> Enum_visit_unit(E)
      [] OTHER -> Unexpected

EnumOpt_visit_str(E, value) ==
    LET r == from_str(E, value)
    IN IF r.ok THEN Ok(Some(r.v)) ELSE Err("invalid_value")

EnumOpt_visit_i64(E, value) ==
    IF WrapAs(I32, value) \in Ordinals(E)
    THEN Ok(Some(WrapAs(I32, value)))
    ELSE Ok(Some(E.default))

EnumOpt_visit(E, tok) ==
    CASE tok.t = "str" -> EnumOpt_visit_str(E, tok.s)
      [] tok.t = "i64" -> EnumOpt_visit_i64(E, tok.n)
      [] tok.t = "f64" -> EnumOpt_visit_i64(E, FloatAs(I64, tok.x))
      [] tok.t = "u64" -> EnumOpt_visit_i64(E, WrapAs(I64, tok.n))
      [] tok.t \in {"unit", "none"} -> Ok(None)
      [] OTHER -> Unexpected

\* enum_serde::serialize
Enum_serialize(E, value) ==
    IF value \notin Ordinals(E) THEN Err("invalid enum value")
    ELSE Ok(TStr(NameOf(E, value)))

\* A serializer that writes an ordinal without a variant as its digits: what
\* C9 tells EnumSerializer from.
EnumSerializer_serialize_digits(E, value) ==
    IF value \notin Ordinals(E) THEN Ok(TStr(to_string(value)))
    ELSE Ok(TStr(NameOf(E, value)))

\* enum_serde::EnumSerializer::serialize
EnumSerializer_serialize(E, value) ==
    IF value \notin Ordinals(E) THEN Err("invalid enum value")
    ELSE Ok(TStr(NameOf(E, value)))

\* enum_opt::serialize
EnumOpt_serialize(E, value) ==
    IF value.some THEN EnumSerializer_serialize(E, value.v) ELSE Ok(TUnit)

(***************************************************************************)
(* Duration                                                                *)
(***************************************************************************)
NANOS_PER_SEC == 10^9

\* std::time::Duration::from_secs_f64: aborts on a negative, non-finite or
\* too large argument; otherwise whole seconds (u64) and the rest in
\* nanoseconds.
from_secs_f64(x) ==
    IF x.k # "fin" \/ (x.neg /\ x.m > 0) \/ x.m \div ONE > MAX(U64)
    THEN Panic
    ELSE Ok([secs |-> x.m \div ONE,
             nanos |-> (x.m % ONE) * (NANOS_PER_SEC \div ONE)])

\* TryFrom<std::time::Duration> for Duration: the seconds must fit an i64.
Duration_try_from(d) ==
    IF d.secs > MAX(I64) THEN Err("out of range")
    ELSE Ok([seconds |-> d.secs, nanos |-> d.nanos])

\* -x of a float
FNeg(x) == [x EXCEPT !.neg = ~x.neg]

\* .try_into().map_err(de::Error::custom) of the std duration
Duration_try_into(std) ==
    IF ~std.ok THEN std
    ELSE IF ~Duration_try_from(std.v).ok THEN Err("custom")
    ELSE Duration_try_from(std.v)

\* A negation of the seconds only: what C10 tells the negation below from.
Duration_negated_seconds_only(d) ==
    IF d.ok THEN Ok([seconds |-> -d.v.seconds, nanos |-> d.v.nanos]) ELSE d

\* Ok(Duration { seconds: -seconds, nanos: -nanos })
Duration_negated(d) ==
    IF d.ok THEN Ok([seconds |-> -d.v.seconds, nanos |-> -d.v.nanos]) ELSE d

\* The branch on seconds.is_sign_negative()
Duration_from_seconds(seconds) ==
    IF ~seconds.ok THEN Err("custom")
    ELSE IF seconds.v.neg
    THEN Duration_negated(Duration_try_into(from_secs_f64(FNeg(seconds.v))))
    ELSE Duration_try_into(from_secs_f64(seconds.v))

Duration_from_stripped(stripped) ==
    IF ~stripped.some THEN Err("invalid duration")
    ELSE Duration_from_seconds(ParseFloat(stripped.v, MANT))

DurationVisitor_visit_str(value) == Duration_from_stripped(StripSuffix(value, "s"))

Duration_visit(tok) ==
    IF tok.t = "str" THEN DurationVisitor_visit_str(tok.s) ELSE Unexpected

(***************************************************************************)
(* Timestamp                                                               *)
(***************************************************************************)
IsLeapYear(y) == y % 4 = 0 /\ (y % 100 # 0 \/ y % 400 = 0)
DaysInMonth(y, m) ==
    CASE m = 2 -> IF IsLeapYear(y) THEN 29 ELSE 28
      [] m \in {4, 6, 9, 11} -> 30
      [] OTHER -> 31
\* The days from 1970-01-01 to the day d of the month m of the year y.
DaysFromCivil(y, m, d) ==
    LET yy == IF m <= 2 THEN y - 1 ELSE y
        era == yy \div 400
        yoe == yy - era * 400
        doy == (153 * (IF m > 2 THEN m - 3 ELSE m + 9) + 2) \div 5 + d - 1
    IN era * 146097 + yoe * 365 + yoe \div 4 - yoe \div 100 + doy - 719468
\* The digits of a fraction of a second, as nanoseconds.
FractionNanos(digits) == DigitsVal(digits) * 10^(9 - Len(digits))
TimestampOf(y, m, d, hh, mm, ss, nanos) ==
    IF m \in 1 .. 12 /\ d >= 1 /\ d <= DaysInMonth(y, m)
       /\ hh <= 23 /\ mm <= 59 /\ ss <= 59
    THEN Some([seconds |-> DaysFromCivil(y, m, d) * 86400 + hh * 3600 + mm * 60 + ss,
               nanos |-> nanos])
    ELSE None
\* The fields of "YYYY-MM-DDThh:mm:ss", all digits, and the fraction digits.
TimestampFields(s, frac) ==
    IF /\ AllDigits(SubSeq(s, 1, 4)) /\ s[5] = "-" /\ AllDigits(SubSeq(s, 6, 7))
       /\ s[8] = "-" /\ AllDigits(SubSeq(s, 9, 10)) /\ s[11] = "T"
       /\ AllDigits(SubSeq(s, 12, 13)) /\ s[14] = ":" /\ AllDigits(SubSeq(s, 15, 16))
       /\ s[17] = ":" /\ AllDigits(SubSeq(s, 18, 19))
       /\ frac.some /\ Len(frac.v) <= 9
    THEN TimestampOf(DigitsVal(SubSeq(s, 1, 4)), DigitsVal(SubSeq(s, 6, 7)),
                     DigitsVal(SubSeq(s, 9, 10)), DigitsVal(SubSeq(s, 12, 13)),
                     DigitsVal(SubSeq(s, 15, 16)), DigitsVal(SubSeq(s, 18, 19)),
                     IF frac.v = <<>> THEN 0 ELSE FractionNanos(frac.v))
    ELSE None
\* The digits between the seconds and the "Z": none, or a point and digits.
TimestampFraction(rest) ==
    IF rest = <<>> THEN Some(<<>>)
    ELSE IF rest[1] = "." /\ Len(rest) >= 2 /\ AllDigits(Tail(rest)) THEN Some(Tail(rest))
    ELSE None
\* crate::datetime::parse_timestamp, the external RFC 3339 parser, for the
\* times written in UTC: "YYYY-MM-DDThh:mm:ss[.fraction]Z".  The seconds
\* count from 1970-01-01T00:00:00Z and the nanos are never negative.
parse_timestamp(value) ==
    IF Len(value) >= 20 /\ value[Len(value)] = "Z"
    THEN TimestampFields(value, TimestampFraction(SubSeq(value, 20, Len(value) - 1)))
    ELSE None

\* A decoder that takes the epoch for a text that is no timestamp: what C12
\* tells the decoder below from.
TimestampVisitor_visit_str_or_epoch(value) ==
    IF parse_timestamp(value).some THEN Ok(parse_timestamp(value).v)
    ELSE Ok([seconds |-> 0, nanos |-> 0])

\* TimestampVisitor::visit_str
TimestampVisitor_visit_str(value) ==
    IF parse_timestamp(value).some THEN Ok(parse_timestamp(value).v)
    ELSE Err("invalid_value")

Timestamp_visit(tok) ==
    IF tok.t = "str" THEN TimestampVisitor_visit_str(tok.s) ELSE Unexpected

(***************************************************************************)
(* Value, Struct, ListValue: the dynamic value                             *)
(***************************************************************************)
\* Value { kind }: no variant set, or one of the six of value::Kind.  The
\* fields of a Struct are a BTreeMap: a function on its set of keys.
NoKind == [kind |-> "none"]
NullValue == [kind |-> "null"]
NumberValue(x) == [kind |-> "number", x |-> x]
StringValue(s) == [kind |-> "string", s |-> s]
BoolValue(b) == [kind |-> "bool", b |-> b]
StructValue(fields) == [kind |-> "struct", fields |-> fields]
ListValue(values) == [kind |-> "list", values |-> values]

\* The sequences and mappings of the JSON protocols: what serialize_seq and
\* serialize_map write, and what SeqAccess and MapAccess read.
TSeq(elems) == [t |-> "seq", elems |-> elems]
TMap(entries) == [t |-> "map", entries |-> entries]
MapEntry(key, val) == [key |-> key, val |-> val]

\* The order of String: by the codes of the characters, a prefix first.
CharCodes ==
    <<"0", "1", "2", "3", "4", "5", "6", "7", "8", "9",
      "A", "B", "C", "D", "E", "F", "G", "H", "I", "J", "K", "L", "M",
      "N", "O", "P", "Q", "R", "S", "T", "U", "V", "W", "X", "Y", "Z",
      "a", "b", "c", "d", "e", "f", "g", "h", "i", "j", "k", "l", "m",
      "n", "o", "p", "q", "r", "s", "t", "u", "v", "w", "x", "y", "z">>
CharCode(c) == CHOOSE i \in 1 .. Len(CharCodes) : CharCodes[i] = c
RECURSIVE StrLess(_, _)
StrLess(a, b) ==
    IF a = <<>> THEN b # <<>>
    ELSE IF b = <<>> THEN FALSE
    ELSE IF a[1] = b[1] THEN StrLess(Tail(a), Tail(b))
    ELSE CharCode(a[1]) < CharCode(b[1])
\* The least key first
FirstKey(keys) == CHOOSE k \in keys : \A j \in keys \ {k} : StrLess(k, j)
\* An iteration from the greatest key down: what C16 tells the iteration
\* below from.
RECURSIVE BTreeMap_keys_descending(_)
BTreeMap_keys_descending(keys) ==
    IF keys = {} THEN <<>>
    ELSE BTreeMap_keys_descending(keys \ {FirstKey(keys)}) \o <<FirstKey(keys)>>
\* BTreeMap::iter: the keys in ascending order
RECURSIVE BTreeMap_keys(_)
BTreeMap_keys(keys) ==
    IF keys = {} THEN <<>>
    ELSE <<FirstKey(keys)>> \o BTreeMap_keys(keys \ {FirstKey(keys)})
\* BTreeMap::insert
BTreeMap_insert(fields, key, value) ==
    [k \in DOMAIN fields \cup {key} |-> IF k = key THEN value ELSE fields[k]]

\* A serializer of numbers that checks nothing: what C13 tells the arm of
\* NumberValue below from.
Value_serialize_number_unchecked(value) == Ok(TF64(value))

\* The arm of value::Kind::NumberValue
Value_serialize_number(value) ==
    IF value.k # "fin" THEN Err("number values must not be NaN or infinite")
    ELSE Ok(TF64(value))

\* One more element, or entry, after the ones written: the first error ends
\* the sequence.
SerializeNext(done, elem, entry) ==
    IF ~done.ok THEN done
    ELSE IF ~elem.ok THEN elem
    ELSE Ok(Append(done.v, entry))

RECURSIVE Value_serialize(_), Vec_serialize(_, _), BTreeMap_serialize(_, _, _)
\* Vec<Value>::serialize: serialize_seq, the elements in order
Vec_serialize(values, n) ==
    IF n = 0 THEN Ok(<<>>)
    ELSE SerializeNext(Vec_serialize(values, n - 1), Value_serialize(values[n]),
                       Value_serialize(values[n]).v)
\* BTreeMap<String, Value>::serialize: serialize_map, the entries by key
BTreeMap_serialize(fields, keys, n) ==
    IF n = 0 THEN Ok(<<>>)
    ELSE SerializeNext(BTreeMap_serialize(fields, keys, n - 1),
                       Value_serialize(fields[keys[n]]),
                       MapEntry(keys[n], Value_serialize(fields[keys[n]]).v))
MapOk(r, frag) == IF r.ok THEN Ok(frag) ELSE r
\* impl Serialize for Value
Value_serialize(self) ==
    CASE self.kind = "none" -> Err("invalid value: variant must be set")
      [] self.kind = "null" -> Ok(TUnit)
      [] self.kind = "number" -> Value_serialize_number(self.x)
      [] self.kind = "string" -> Ok(TStr(self.s))
      [] self.kind = "bool" -> Ok(TBool(self.b))
      [] self.kind = "struct" ->
           MapOk(BTreeMap_serialize(self.fields, BTreeMap_keys(DOMAIN self.fields),
                                    Cardinality(DOMAIN self.fields)),
                 TMap(BTreeMap_serialize(self.fields, BTreeMap_keys(DOMAIN self.fields),
                                         Cardinality(DOMAIN self.fields)).v))
      [] self.kind = "list" ->
           MapOk(Vec_serialize(self.values, Len(self.values)),
                 TSeq(Vec_serialize(self.values, Len(self.values)).v))

\* values.push(elem), fields.insert(key, value) after `?`
PushNext(done, elem) ==
    IF ~done.ok THEN done
    ELSE IF ~elem.ok THEN elem
    ELSE Ok(Append(done.v, elem.v))
InsertNext(done, key, value) ==
    IF ~done.ok THEN done
    ELSE IF ~value.ok THEN value
    ELSE Ok(BTreeMap_insert(done.v, key, value.v))
WrapOk(r, value) == IF r.ok THEN Ok(value) ELSE r

RECURSIVE Value_visit(_), ValueVisitor_elements(_, _), ValueVisitor_entries(_, _)
\* while let Some(elem) = visitor.next_element()? { values.push(elem) }
ValueVisitor_elements(elems, n) ==
    IF n = 0 THEN Ok(<<>>)
    ELSE PushNext(ValueVisitor_elements(elems, n - 1), Value_visit(elems[n]))
\* while let Some((key, value)) = visitor.next_entry()? { fields.insert(key, value) }
ValueVisitor_entries(entries, n) ==
    IF n = 0 THEN Ok(<<>>)
    ELSE InsertNext(ValueVisitor_entries(entries, n - 1), entries[n].key,
                    Value_visit(entries[n].val))
\* A null read as a Value with no variant set: what C15 tells visit_none
\* below from.
ValueVisitor_visit_none_unset == Ok(NoKind)
\* ValueVisitor::visit_none, and visit_unit through it: Value::null()
ValueVisitor_visit_none == Ok(NullValue)
\* A widening through f32: what C14 tells the widening below from.
ValueVisitor_visit_int_as_f32(value) ==
    Ok(NumberValue(F32AsF64(IntAsFloat(value, MANT32))))
\* ValueVisitor::visit_i64, visit_u64: self.visit_f64(value as f64)
ValueVisitor_visit_int(value) == Ok(NumberValue(IntAsF64(value)))
\* ValueVisitor::visit_seq
ValueVisitor_visit_seq(elems) ==
    WrapOk(ValueVisitor_elements(elems, Len(elems)),
           ListValue(ValueVisitor_elements(elems, Len(elems)).v))
\* ValueVisitor::visit_map
ValueVisitor_visit_map(entries) ==
    WrapOk(ValueVisitor_entries(entries, Len(entries)),
           StructValue(ValueVisitor_entries(entries, Len(entries)).v))
\* impl Visitor for ValueVisitor, through deserialize_any
Value_visit(tok) ==
    CASE tok.t = "bool" -> Ok(BoolValue(tok.b))
      [] tok.t \in {"i64", "u64"} -> ValueVisitor_visit_int(tok.n)
      [] tok.t = "f64" -> Ok(NumberValue(tok.x))
      [] tok.t = "str" -> Ok(StringValue(tok.s))
      [] tok.t \in {"none", "unit"} -> ValueVisitor_visit_none
      [] tok.t = "seq" -> ValueVisitor_visit_seq(tok.elems)
      [] tok.t = "map" -> ValueVisitor_visit_map(tok.entries)
      [] OTHER -> Unexpected
\* The calls of `while let Some(..) = visitor.next_element()?` and of
\* `visitor.next_entry()?` in visit_seq and visit_map: results[i] is what the
\* i-th call returns for an element, and the call after the last returns
\* None.
RECURSIVE ValueVisitor_while_let(_, _, _)
ValueVisitor_while_let(op, results, made) ==
    IF Len(made) = Len(results) THEN Append(made, Call(op, TRUE, 0, TNone))
    ELSE IF ~results[Len(made) + 1].ok THEN Append(made, Call(op, FALSE, 0, TNone))
    ELSE ValueVisitor_while_let(op, results, Append(made, Call(op, TRUE, 0, TNone)))
\* The calls of the ValueVisitor on the accessor of the token it is given.
ValueVisitor_calls(tok) ==
    CASE tok.t = "seq" ->
           ValueVisitor_while_let("next_element",
                                  [i \in 1 .. Len(tok.elems) |-> Value_visit(tok.elems[i])],
                                  <<>>)
      [] tok.t = "map" ->
           ValueVisitor_while_let("next_entry",
                                  [i \in 1 .. Len(tok.entries) |->
                                     Value_visit(tok.entries[i].val)],
                                  <<>>)
      [] OTHER -> <<>>

(***************************************************************************)
(* mod f64, f64_opt, f32, f32_opt                                          *)
(***************************************************************************)
STR_NAN == <<"N", "a", "N">>
STR_INFINITY == <<"I", "n", "f", "i", "n", "i", "t", "y">>
STR_NEG_INFINITY == <<"-">> \o STR_INFINITY

F64_visit_str(value) ==
    CASE value = STR_NAN -> Ok(NaN)
      [] value = STR_INFINITY -> Ok(Inf(FALSE))
      [] value = STR_NEG_INFINITY -> Ok(Inf(TRUE))
      [] OTHER -> ParseFloat(value, MANT)

F64_visit(tok) ==
    CASE tok.t = "i64" -> Ok(IntAsF64(tok.n))
      [] tok.t = "f64" -> Ok(tok.x)
      [] tok.t = "u64" -> Ok(IntAsF64(tok.n))
      [] tok.t = "str" -> F64_visit_str(tok.s)
      [] tok.t = "unit" -> Ok(Fin(FALSE, 0))
      [] OTHER -> Unexpected

F64Opt_visit_str(value) ==
    CASE value = STR_NAN -> Ok(Some(NaN))
      [] value = STR_INFINITY -> Ok(Some(Inf(FALSE)))
      [] value = STR_NEG_INFINITY -> Ok(Some(Inf(TRUE)))
      [] OTHER -> MapSome(ParseFloat(value, MANT))

F64Opt_visit(tok) ==
    CASE tok.t = "i64" -> Ok(Some(IntAsF64(tok.n)))
      [] tok.t = "f64" -> Ok(Some(tok.x))
      [] tok.t = "u64" -> Ok(Some(IntAsF64(tok.n)))
      [] tok.t = "str" -> F64Opt_visit_str(tok.s)
      [] tok.t \in {"unit", "none"} -> Ok(None)
      [] OTHER -> Unexpected

\* f32::MIN as f64 and f32::MAX as f64
F32_MAX == Fin(FALSE, MaxFinite(MANT32))
F32_MIN == Fin(TRUE, MaxFinite(MANT32))

F32_visit_f64(value) ==
    IF FLt(value, F32_MIN) \/ FGt(value, F32_MAX)
    THEN Err("invalid_type")
    ELSE Ok(F64AsF32(value))

F32_visit_str(value) ==
    CASE value = STR_NAN -> Ok(NaN)
      [] value = STR_INFINITY -> Ok(Inf(FALSE))
      [] value = STR_NEG_INFINITY -> Ok(Inf(TRUE))
      [] OTHER -> ParseFloat(value, MANT32)

F32_visit(tok) ==
    CASE tok.t = "i64" -> Ok(IntAsFloat(tok.n, MANT32))
      [] tok.t = "f64" -> F32_visit_f64(tok.x)
      [] tok.t = "u64" -> Ok(IntAsFloat(tok.n, MANT32))
      [] tok.t = "str" -> F32_visit_str(tok.s)
      [] tok.t = "unit" -> Ok(Fin(FALSE, 0))
      [] OTHER -> Unexpected

\* A narrowing without the range check: what C18 tells the check below from.
F32Opt_visit_f64_unchecked(value) == Ok(Some(F64AsF32(value)))

\* f32_opt::F32Visitor::visit_f64
F32Opt_visit_f64(value) ==
    IF FLt(value, F32_MIN) \/ FGt(value, F32_MAX)
    THEN Err("invalid_type")
    ELSE Ok(Some(F64AsF32(value)))

F32Opt_visit_str(value) ==
    CASE value = STR_NAN -> Ok(Some(NaN))
      [] value = STR_INFINITY -> Ok(Some(Inf(FALSE)))
      [] value = STR_NEG_INFINITY -> Ok(Some(Inf(TRUE)))
      [] OTHER -> MapSome(ParseFloat(value, MANT32))

F32Opt_visit(tok) ==
    CASE tok.t = "i64" -> Ok(Some(IntAsFloat(tok.n, MANT32)))
      [] tok.t = "f64" -> F32Opt_visit_f64(tok.x)
      [] tok.t = "u64" -> Ok(Some(IntAsFloat(tok.n, MANT32)))
      [] tok.t = "str" -> F32Opt_visit_str(tok.s)
      [] tok.t \in {"unit", "none"} -> Ok(None)
      [] OTHER -> Unexpected

\* A number written by serialize_f32, before a reader has parsed it.
JF32(x) == [t |-> "f32", x |-> x]

\* A serializer that writes every value as a number: what C19 tells the
\* serializer below from.
F64Serializer_serialize_number(value) == Ok(TF64(value))

\* f64::F64Serializer
F64Serializer_serialize(value) ==
    CASE value.k = "nan" -> Ok(TStr(STR_NAN))
      [] value.k = "inf" /\ value.neg -> Ok(TStr(STR_NEG_INFINITY))
      [] value.k = "inf" -> Ok(TStr(STR_INFINITY))
      [] OTHER -> Ok(TF64(value))

\* f32::F32Serializer
F32Serializer_serialize(value) ==
    CASE value.k = "nan" -> Ok(TStr(STR_NAN))
      [] value.k = "inf" /\ value.neg -> Ok(TStr(STR_NEG_INFINITY))
      [] value.k = "inf" -> Ok(TStr(STR_INFINITY))
      [] OTHER -> Ok(JF32(value))

\* f64_opt::serialize, f32_opt::serialize
F64Opt_serialize(value) ==
    IF value.some THEN F64Serializer_serialize(value.v) ELSE Ok(TUnit)
F32Opt_serialize(value) ==
    IF value.some THEN F32Serializer_serialize(value.v) ELSE Ok(TUnit)

(***************************************************************************)
(* mod string, string_opt, bool, bool_opt                                  *)
(***************************************************************************)
\* string::StringVisitor
String_visit(tok) ==
    CASE tok.t = "str" -> Ok(tok.s)
      [] tok.t = "unit" -> Ok(<<>>)
      [] OTHER -> Unexpected

\* A decoder that takes a null for the empty string: what C17 tells the
\* decoder below from.
StringOpt_visit_unit_as_default(tok) ==
    CASE tok.t = "str" -> Ok(Some(tok.s))
      [] tok.t = "unit" -> Ok(Some(<<>>))
      [] tok.t = "none" -> Ok(None)
      [] OTHER -> Unexpected

\* string_opt::StringVisitor
StringOpt_visit(tok) ==
    CASE tok.t = "str" -> Ok(Some(tok.s))
      [] tok.t = "unit" -> Ok(None)
      [] tok.t = "none" -> Ok(None)
      [] OTHER -> Unexpected

\* bool::BoolVisitor
Bool_visit(tok) ==
    CASE tok.t = "bool" -> Ok(tok.b)
      [] tok.t = "unit" -> Ok(FALSE)
      [] OTHER -> Unexpected

\* bool_opt::BoolVisitor
BoolOpt_visit(tok) ==
    CASE tok.t = "bool" -> Ok(Some(tok.b))
      [] tok.t = "unit" -> Ok(None)
      [] tok.t = "none" -> Ok(None)
      [] OTHER -> Unexpected

(***************************************************************************)
(* mod bool_map_key                                                        *)
(***************************************************************************)
STR_TRUE == <<"t", "r", "u", "e">>
STR_FALSE == <<"f", "a", "l", "s", "e">>

BoolKey_visit_str(value) ==
    CASE value = STR_TRUE -> Ok(TRUE)
      [] value = STR_FALSE -> Ok(FALSE)
      [] OTHER -> Err("invalid_type")

BoolKey_visit(tok) ==
    IF tok.t = "str" THEN BoolKey_visit_str(tok.s) ELSE Unexpected

\* A serializer that writes the key as a JSON boolean: what C21 tells the
\* serializer below from.
BoolKeySerializer_serialize_bool(value) == Ok(TBool(value))
BoolKeySerializer_serialize(value) ==
    IF value THEN Ok(TStr(STR_TRUE)) ELSE Ok(TStr(STR_FALSE))

(***************************************************************************)
(* mod vec_u8, vec_u8_opt: bytes as base64 text                            *)
(***************************************************************************)
B64 ==
    <<
       "A", "B", "C", "D", "E", "F", "G", "H", "I", "J", "K", "L", "M", "N", "O", "P",
       "Q", "R", "S", "T", "U", "V", "W", "X", "Y", "Z", "a", "b", "c", "d", "e", "f",
       "g", "h", "i", "j", "k", "l", "m", "n", "o", "p", "q", "r", "s", "t", "u", "v",
       "w", "x", "y", "z", "0", "1", "2", "3", "4", "5", "6", "7", "8", "9", "+", "/" >>
B64Index(c) == (CHOOSE i \in 1 .. 64 : B64[i] = c) - 1
IsB64(c) == \E i \in 1 .. 64 : B64[i] = c

\* base64::encode: three bytes make four characters, '=' pads the last group.
RECURSIVE base64_encode(_)
base64_encode(b) ==
    CASE Len(b) = 0 -> <<>>
      [] Len(b) = 1 ->
           <<B64[b[1] \div 4 + 1], B64[(b[1] % 4) * 16 + 1], "=", "=">>
      [] Len(b) = 2 ->
           <<B64[b[1] \div 4 + 1], B64[(b[1] % 4) * 16 + b[2] \div 16 + 1],
             B64[(b[2] % 16) * 4 + 1], "=">>
      [] OTHER ->
           <<B64[b[1] \div 4 + 1], B64[(b[1] % 4) * 16 + b[2] \div 16 + 1],
             B64[(b[2] % 16) * 4 + b[3] \div 64 + 1], B64[(b[3] % 64) + 1]>>
             \o base64_encode(SubSeq(b, 4, Len(b)))

\* base64::decode: groups of four characters; padding only in the last group,
\* and no bits left over in the character before the padding.
RECURSIVE base64_decode(_)
base64_decode(s) ==
    IF s = <<>> THEN Ok(<<>>)
    ELSE IF Len(s) < 4 \/ ~IsB64(s[1]) \/ ~IsB64(s[2]) THEN Err("base64")
    ELSE LET c1 == B64Index(s[1])
             c2 == B64Index(s[2])
             b1 == c1 * 4 + c2 \div 16
             rest == base64_decode(SubSeq(s, 5, Len(s)))
         IN IF s[3] = "=" /\ s[4] = "="
            THEN IF Len(s) = 4 /\ c2 % 16 = 0 THEN Ok(<<b1>>) ELSE Err("base64")
            ELSE IF ~IsB64(s[3]) THEN Err("base64")
            ELSE LET c3 == B64Index(s[3])
                     b2 == (c2 % 16) * 16 + c3 \div 4
                 IN IF s[4] = "="
                    THEN IF Len(s) = 4 /\ c3 % 4 = 0
                         THEN Ok(<<b1, b2>>) ELSE Err("base64")
                    ELSE IF ~IsB64(s[4]) \/ ~rest.ok THEN Err("base64")
                    ELSE Ok(<<b1, b2, (c3 % 4) * 64 + B64Index(s[4])>> \o rest.v)

VecU8_visit(tok) ==
    CASE tok.t = "str" -> base64_decode(tok.s)
      [] tok.t = "unit" -> Ok(<<>>)
      [] OTHER -> Unexpected

VecU8Opt_visit(tok) ==
    CASE tok.t = "str" -> MapSome(base64_decode(tok.s))
      [] tok.t \in {"unit", "none"} -> Ok(None)
      [] OTHER -> Unexpected

VecU8Serializer_serialize(value) == Ok(TStr(base64_encode(value)))

VecU8Opt_serialize(value) ==
    IF value.some THEN VecU8Serializer_serialize(value.v) ELSE Ok(TUnit)

(***************************************************************************)
(* mod empty, empty_opt: the message with no fields                        *)
(***************************************************************************)
\* The only value of (), and its Deserialize: a unit token and nothing else.
Unit == <<>>
Unit_deserialize(tok) == IF tok.t = "unit" THEN Ok(Unit) ELSE Unexpected
\* map.next_entry::<(), ()>()?: None at the end of the mapping, or the first
\* entry read as a pair of units.  A key comes as a string token.
Empty_next_entry(entries) ==
    IF entries = <<>> THEN Ok(None)
    ELSE IF ~Unit_deserialize(TStr(entries[1].key)).ok
    THEN Unit_deserialize(TStr(entries[1].key))
    ELSE IF ~Unit_deserialize(entries[1].val).ok
    THEN Unit_deserialize(entries[1].val)
    ELSE Ok(Some(<<Unit, Unit>>))
\* A visitor that looks at no entry: what C23 tells visit_map below from.
EmptyVisitor_visit_map_unread(entries) == Ok(Unit)
\* empty::EmptyVisitor::visit_map
EmptyVisitor_visit_map(entries) ==
    IF ~Empty_next_entry(entries).ok THEN Empty_next_entry(entries)
    ELSE IF Empty_next_entry(entries).v.some
    THEN Err("this is a message, not empty")
    ELSE Ok(Unit)
\* impl Visitor for empty::EmptyVisitor, through deserialize_any
Empty_visit(tok) ==
    IF tok.t = "map" THEN EmptyVisitor_visit_map(tok.entries) ELSE Unexpected
\* empty::serialize: serialize_map(Some(0)), end
Empty_serialize(value) == Ok(TMap(<<>>))

\* empty_opt::EmptyVisitor::visit_map
EmptyOptVisitor_visit_map(entries) ==
    IF ~Empty_next_entry(entries).ok THEN Empty_next_entry(entries)
    ELSE IF Empty_next_entry(entries).v.some
    THEN Err("this is a message, not empty")
    ELSE Ok(Some(Unit))
\* empty_opt::EmptyVisitor::visit_unit
EmptyOptVisitor_visit_unit == Ok(Some(Unit))
\* empty_opt::EmptyVisitor::visit_none
EmptyOptVisitor_visit_none == Ok(None)
\* impl Visitor for empty_opt::EmptyVisitor, through deserialize_any
EmptyOpt_visit(tok) ==
    CASE tok.t = "map" -> EmptyOptVisitor_visit_map(tok.entries)
      [] tok.t = "unit" -> EmptyOptVisitor_visit_unit
      [] tok.t = "none" -> EmptyOptVisitor_visit_none
      [] OTHER -> Unexpected
\* empty_opt::serialize
EmptyOpt_serialize(opt) ==
    IF opt.some THEN Ok(TMap(<<>>)) ELSE Ok(TUnit)

(***************************************************************************)
(* mod vec, repeated and the map modules: the collections.  A collection   *)
(* is generic in the codecs of its elements; the model instantiates each   *)
(* module with one key codec and one value codec.                          *)
(***************************************************************************)

\* T::deserialize of a plain key or element: a String key (a key comes as a
\* string token), or a Value.
Plain_deserialize(c, tok) ==
    IF c = "String" THEN (IF tok.t = "str" THEN Ok(tok.s) ELSE Unexpected)
    ELSE Value_visit(tok)
\* impl Deserialize for MyType<T>: deserialize_any(T::new())
MyType_deserialize(c, E, tok) ==
    CASE c = "bool_map_key" -> BoolKey_visit(tok)
      [] c = "i64" -> Int_visit(I64, tok)
      [] c = "enum" -> Enum_visit(E, tok)
      [] OTHER -> Plain_deserialize(c, tok)
\* T::serialize of a plain key or value
Plain_serialize(c, val) ==
    IF c = "String" THEN Ok(TStr(val)) ELSE Value_serialize(val)
\* impl Serialize for MySeType<T>: T::serialize(self.val, serializer)
MySeType_serialize(c, E, val) ==
    CASE c = "bool_map_key" -> BoolKeySerializer_serialize(val)
      [] c = "i64" -> Int_serialize(I64, val)
      [] c = "enum" -> EnumSerializer_serialize(E, val)
      [] OTHER -> Plain_serialize(c, val)

\* seq.next_element()? for each element of the stream
SeqAccess_elements(c, E, elems) ==
    [i \in 1 .. Len(elems) |-> MyType_deserialize(c, E, elems[i])]
\* map.next_entry()? for each entry of the stream: the key, then the value
MapAccess_next_entry(key, val) ==
    IF ~key.ok THEN key
    ELSE IF ~val.ok THEN val
    ELSE Ok(MapEntry(key.v, val.v))
MapAccess_entries(kc, vc, E, entries) ==
    [i \in 1 .. Len(entries) |->
       MapAccess_next_entry(MyType_deserialize(kc, E, TStr(entries[i].key)),
                            MyType_deserialize(vc, E, entries[i].val))]

\* A loop that passes over an element that fails and goes on with the next:
\* what C27 tells the loop below from.
RECURSIVE VecVisitor_visit_seq_skipping(_, _, _)
VecVisitor_visit_seq_skipping(results, res, made) ==
    IF Len(made) = Len(results)
    THEN Run(Ok(res), Append(made, Call("next_element", TRUE, 0, TNone)))
    ELSE VecVisitor_visit_seq_skipping(
           results,
           IF results[Len(made) + 1].ok
           THEN Append(res, results[Len(made) + 1].v) ELSE res,
           Append(made, Call("next_element", results[Len(made) + 1].ok, 0, TNone)))
\* VecVisitor::visit_seq of vec and of repeated:
\* loop { match seq.next_element()? { Some(el) => res.push(el),
\*                                    None => return Ok(res) } }
\* results[i] is what the i-th call of next_element returns for an element;
\* the call after the last element returns None.
RECURSIVE VecVisitor_visit_seq(_, _, _)
VecVisitor_visit_seq(results, res, made) ==
    IF Len(made) = Len(results)
    THEN Run(Ok(res), Append(made, Call("next_element", TRUE, 0, TNone)))
    ELSE IF ~results[Len(made) + 1].ok
    THEN Run(results[Len(made) + 1],
             Append(made, Call("next_element", FALSE, 0, TNone)))
    ELSE VecVisitor_visit_seq(
           results, Append(res, results[Len(made) + 1].v),
           Append(made, Call("next_element", TRUE, 0, TNone)))
\* A visitor with no visit_unit: what C25 tells visit_unit below from.
VecVisitor_visit_unit_rejected == Run(Unexpected, <<>>)
\* VecVisitor::visit_unit: Ok(Self::Value::default())
VecVisitor_visit_unit == Run(Ok(<<>>), <<>>)
\* impl Visitor for vec::VecVisitor<T>, T a Value
Vec_visit(tok) ==
    CASE tok.t = "seq" ->
           VecVisitor_visit_seq(SeqAccess_elements("Value", NoEnum, tok.elems),
                                <<>>, <<>>)
      [] tok.t = "unit" -> VecVisitor_visit_unit
      [] OTHER -> Run(Unexpected, <<>>)
\* impl Visitor for repeated::VecVisitor<T>, T the visitor of the enum E
Repeated_visit(E, tok) ==
    CASE tok.t = "seq" ->
           VecVisitor_visit_seq(SeqAccess_elements("enum", E, tok.elems),
                                <<>>, <<>>)
      [] tok.t = "unit" -> VecVisitor_visit_unit
      [] OTHER -> Run(Unexpected, <<>>)

\* An insert that keeps the value a key already has: what C26 tells the
\* insert of the maps from.
Map_insert_if_absent(res, key, value) ==
    IF key \in DOMAIN res THEN res ELSE BTreeMap_insert(res, key, value)
\* HashMap::insert and BTreeMap::insert: the value of the key is replaced.
Map_insert(res, key, value) == BTreeMap_insert(res, key, value)
\* MapVisitor::visit_map of every map module:
\* loop { match map.next_entry()? { Some((k, v)) => { res.insert(k, v); }
\*                                  None => return Ok(res) } }
RECURSIVE MapVisitor_visit_map(_, _, _)
MapVisitor_visit_map(results, res, made) ==
    IF Len(made) = Len(results)
    THEN Run(Ok(res), Append(made, Call("next_entry", TRUE, 0, TNone)))
    ELSE IF ~results[Len(made) + 1].ok
    THEN Run(results[Len(made) + 1],
             Append(made, Call("next_entry", FALSE, 0, TNone)))
    ELSE MapVisitor_visit_map(
           results,
           Map_insert(res, results[Len(made) + 1].v.key,
                      results[Len(made) + 1].v.val),
           Append(made, Call("next_entry", TRUE, 0, TNone)))
\* MapVisitor::visit_unit: Ok(Self::Value::default())
MapVisitor_visit_unit == Run(Ok(<<>>), <<>>)

\* The modules of maps, each with the codec of its keys and of its values,
\* and whether it keeps a BTreeMap (ordered) or a HashMap.
MapShape(kc, vc, ordered) == [key |-> kc, val |-> vc, ordered |-> ordered]
MapShapes ==
    [map |-> MapShape("String", "Value", FALSE),
     btree_map |-> MapShape("String", "Value", TRUE),
     map_custom |-> MapShape("bool_map_key", "Value", FALSE),
     btree_map_custom |-> MapShape("i64", "Value", TRUE),
     map_custom_value |-> MapShape("String", "enum", FALSE),
     btree_map_custom_value |-> MapShape("String", "enum", TRUE),
     map_custom_to_custom |-> MapShape("bool_map_key", "enum", FALSE),
     btree_map_custom_to_custom |-> MapShape("i64", "enum", TRUE)]
MapMods == DOMAIN MapShapes
\* impl Visitor for the MapVisitor of the module mod
Map_visit(mod, E, tok) ==
    CASE tok.t = "map" ->
           MapVisitor_visit_map(
             MapAccess_entries(MapShapes[mod].key, MapShapes[mod].val, E, tok.entries),
             <<>>, <<>>)
      [] tok.t = "unit" -> MapVisitor_visit_unit
      [] OTHER -> Run(Unexpected, <<>>)

\* A loop that closes the sequence before it returns the error of an
\* element: what C28 tells the loop below from.
RECURSIVE SerializeSeq_elements_closing(_, _, _)
SerializeSeq_elements_closing(results, frags, made) ==
    IF Len(frags) = Len(results)
    THEN Run(Ok(TSeq(frags)), Append(made, Call("end", TRUE, 0, TNone)))
    ELSE IF ~results[Len(frags) + 1].ok
    THEN Run(results[Len(frags) + 1],
             made \o <<Call("serialize_element", FALSE, 0, TNone),
                        Call("end", TRUE, 0, TNone)>>)
    ELSE SerializeSeq_elements_closing(
           results, Append(frags, results[Len(frags) + 1].v),
           Append(made, Call("serialize_element", TRUE, 0, results[Len(frags) + 1].v)))
\* for e in value { seq.serialize_element(&MySeType::<F> { val: e })?; }
\* seq.end()
\* results[i] is what the serializer of the i-th element returns.
RECURSIVE SerializeSeq_elements(_, _, _)
SerializeSeq_elements(results, frags, made) ==
    IF Len(frags) = Len(results)
    THEN Run(Ok(TSeq(frags)), Append(made, Call("end", TRUE, 0, TNone)))
    ELSE IF ~results[Len(frags) + 1].ok
    THEN Run(results[Len(frags) + 1],
             Append(made, Call("serialize_element", FALSE, 0, TNone)))
    ELSE SerializeSeq_elements(
           results, Append(frags, results[Len(frags) + 1].v),
           Append(made, Call("serialize_element", TRUE, 0, results[Len(frags) + 1].v)))
\* repeated::serialize, F the EnumSerializer of E
Repeated_serialize(E, value) ==
    SerializeSeq_elements([i \in 1 .. Len(value) |-> MySeType_serialize("enum", E, value[i])],
                          <<>>, <<Call("serialize_seq", TRUE, Len(value), TNone)>>)

\* map.serialize_entry(key, value): the key, which a JSON mapping takes as a
\* string only, then the value.
SerializeMap_serialize_entry(key, val) ==
    IF ~key.ok THEN key
    ELSE IF key.v.t # "str" THEN Err("key must be a string")
    ELSE IF ~val.ok THEN val
    ELSE Ok(MapEntry(key.v.s, val.v))
\* for (key, value) in value { map.serialize_entry(..)?; } map.end()
RECURSIVE SerializeMap_entries(_, _, _)
SerializeMap_entries(results, frags, made) ==
    IF Len(frags) = Len(results)
    THEN Run(Ok(TMap(frags)), Append(made, Call("end", TRUE, 0, TNone)))
    ELSE IF ~results[Len(frags) + 1].ok
    THEN Run(results[Len(frags) + 1],
             Append(made, Call("serialize_entry", FALSE, 0, TNone)))
    ELSE SerializeMap_entries(
           results, Append(frags, results[Len(frags) + 1].v),
           Append(made, Call("serialize_entry", TRUE, 0, results[Len(frags) + 1].v)))
\* The order of the keys of a BTreeMap: Ord of String, of i64 and of bool.
KeyLess(kc, a, b) ==
    CASE kc = "String" -> StrLess(a, b)
      [] kc = "i64" -> a < b
      [] OTHER -> ~a /\ b
\* BTreeMap::iter: the keys in ascending order
RECURSIVE BTreeMap_iter(_, _)
BTreeMap_iter(kc, keys) ==
    IF keys = {} THEN <<>>
    ELSE LET first == CHOOSE k \in keys : \A j \in keys \ {k} : KeyLess(kc, k, j)
         IN <<first>> \o BTreeMap_iter(kc, keys \ {first})
\* HashMap::iter: the keys in an order the program does not choose
HashMap_iter(keys) ==
    { order \in [1 .. Cardinality(keys) -> keys] :
        \A i, j \in 1 .. Cardinality(keys) : i # j => order[i] # order[j] }
\* The orders in which the map of the module mod may hand out its keys.
Map_iter(mod, keys) ==
    IF MapShapes[mod].ordered THEN {BTreeMap_iter(MapShapes[mod].key, keys)}
    ELSE HashMap_iter(keys)
\* serialize of the six map modules with a custom key or value; order is the
\* order of the iteration `for (key, value) in value`.
Map_serialize(mod, E, value, order) ==
    SerializeMap_entries(
      [i \in 1 .. Len(order) |->
         SerializeMap_serialize_entry(
           MySeType_serialize(MapShapes[mod].key, E, order[i]),
           MySeType_serialize(MapShapes[mod].val, E, value[order[i]]))],
      <<>>, <<Call("serialize_map", TRUE, Len(order), TNone)>>)

\* is_default: t == &T::default().  PartialEq of a float is the equality of
\* IEEE 754 (the two zeros are equal, a NaN equals nothing), that of the
\* other types the equality of the values.
Default(T) ==
    CASE T = "bool" -> FALSE
      [] T \in {"i32", "i64"} -> 0
      [] T = "f64" -> Fin(FALSE, 0)
      [] T = "Option" -> None
      [] OTHER -> <<>>
PartialEq(T, a, b) ==
    IF T = "f64"
    THEN /\ a.k # "nan" /\ b.k # "nan"
         /\ (a = b \/ (a.k = "fin" /\ b.k = "fin" /\ a.m = 0 /\ b.m = 0))
    ELSE a = b
is_default(T, t) == PartialEq(T, t, Default(T))

(***************************************************************************)
(* Inputs                                                                  *)
(***************************************************************************)
\* Integers around the limits of every integer type and of the exact
\* integer range of f64.
IntLandmarks ==
    {0, 1, 3, MAX(I32), MAX(I32) + 1, MAX(U32), MAX(U32) + 1, 2^MANT + 1,
     MAX(I64) - 1, MAX(I64), MAX(I64) + 1, MAX(U64), MAX(U64) + 1}
Signs == {<<>>, <<"-">>, <<"+">>}
Fractions == {<<>>, <<".", "0">>, <<".", "5">>, <<".">>}
Exponents ==
    {<<>>, <<"e", "0">>, <<"e", "1">>, <<"E", "1">>, <<"e", "-", "1">>,
     <<"e", "-", "2">>}
NumStrings ==
    { sg \o to_string(n) \o fr \o ex :
        sg \in Signs, n \in IntLandmarks, fr \in Fractions, ex \in Exponents }
OtherStrings ==
    {<<>>, <<"x">>, <<"-">>, <<".", "5">>, <<"e", "5">>, <<"1", "e">>,
     <<"i", "n", "f">>, <<"n", "a", "n">>, <<"-", "N", "a", "N">>,
     STR_NAN, STR_INFINITY, STR_NEG_INFINITY, STR_TRUE, STR_FALSE,
     <<"T", "r", "u", "e">>, <<"m", "a", "y", "b", "e">>,
     <<"b", "o", "g", "u", "s">>, <<"f", "o", "o">>, <<"T", "Q">>,
     <<"T", "R", "=", "=">>, <<"T", "Q", "=", "=">>, <<"T", "W", "F", "u">>,
     <<"T", "W", "F", "!">>, <<"=", "=", "=", "=">>}
      \cup UNION { Names(E) : E \in EnumTypes }
DurationStrings == { s \o <<"s">> : s \in NumStrings \cup OtherStrings }

\* Texts for the Timestamp decoder: timestamps, and texts that are none.
TimestampStrings ==
    {<<"1", "9", "7", "0", "-", "0", "1", "-", "0", "1", "T", "0", "0", ":", "0", "0", ":", "0", "0", "Z">>,
     <<"1", "9", "7", "0", "-", "0", "1", "-", "0", "1", "T", "0", "0", ":", "0", "0", ":", "0", "1", ".", "5", "Z">>,
     <<"1", "9", "6", "9", "-", "1", "2", "-", "3", "1", "T", "2", "3", ":", "5", "9", ":", "5", "9", "Z">>,
     <<"1", "9", "6", "9", "-", "1", "2", "-", "3", "1", "T", "2", "3", ":", "5", "9", ":", "5", "9", ".", "2", "5", "Z">>,
     <<"2", "0", "0", "0", "-", "0", "2", "-", "2", "9", "T", "1", "2", ":", "0", "0", ":", "0", "0", "Z">>,
     <<"2", "0", "0", "1", "-", "0", "2", "-", "2", "9", "T", "1", "2", ":", "0", "0", ":", "0", "0", "Z">>,
     <<"1", "9", "7", "0", "-", "1", "3", "-", "0", "1", "T", "0", "0", ":", "0", "0", ":", "0", "0", "Z">>,
     <<"1", "9", "7", "0", "-", "0", "1", "-", "0", "1", "T", "0", "0", ":", "0", "0", ":", "0", "0">>,
     <<"1", "9", "7", "0", "-", "0", "1", "-", "0", "1", "T", "2", "4", ":", "0", "0", ":", "0", "0", "Z">>,
     <<"1", "9", "7", "0", "-", "0", "1", "-", "0", "1", "T", "0", "0", ":", "0", "0", ":", "0", "0", ".", "Z">>,
     <<"1", "9", "7", "0", "-", "0", "1", "-", "0", "1", "T", "0", "0", ":", "0", "0", ":", "6", "0", "Z">>,
     <<"1", "9", "7", "0", "-", "0", "1", "-", "0", "0", "T", "0", "0", ":", "0", "0", ":", "0", "0", "Z">>,
     <<"1", "9", "7", "0", "/", "0", "1", "/", "0", "1", "T", "0", "0", ":", "0", "0", ":", "0", "0", "Z">>,
     <<"1", "9", "7", "0", "-", "0", "1", "-", "0", "1", "T", "0", "0", ":", "0", "0", ":", "0", "0", ".", "0", "0", "0", "0", "0", "0", "0", "0", "0", "1", "Z">>,
     <<"2", "0", "3", "8", "-", "0", "1", "-", "1", "9", "T", "0", "3", ":", "1", "4", ":", "0", "7", ".", "9", "9", "9", "9", "9", "9", "9", "9", "9", "Z">>,
     <<"1", "9", "0", "1", "-", "1", "2", "-", "1", "4", "T", "0", "0", ":", "0", "0", ":", "0", "0", "Z">>,
     <<"1", "9", "7", "0", "-", "0", "1", "-", "0", "1", "T", "0", "0", ":", "0", "0", ":", "0", "x", "Z">>}

IntegerTokens ==
    { TI64(n) : n \in MIN(I64) .. MAX(I64) } \cup { TU64(n) : n \in 0 .. MAX(U64) }
OtherTokens == {TUnit, TNone, TBool(TRUE), TBool(FALSE)}
\* Every token a numeric field may meet.
NumericTokens ==
    IntegerTokens \cup { TF64(x) : x \in F64Values }
      \cup { TStr(s) : s \in NumStrings \cup OtherStrings } \cup OtherTokens
\* The tokens of the other fields: every kind of token, fewer numbers.
PlainTokens ==
    { TI64(n) : n \in {-1, 0, 1} } \cup { TU64(n) : n \in {0, 1} }
      \cup { TF64(x) : x \in {Fin(FALSE, 0), Fin(FALSE, ONE), NaN} }
      \cup { TStr(s) : s \in OtherStrings } \cup OtherTokens

\* The keys of the dynamic Structs and of the JSON mappings.
Keys == {<<"a">>, <<"b">>}
\* The place of the key k among the keys S in ascending order
KeyIndex(S, k) == Cardinality({ j \in S : StrLess(j, k) }) + 1
ValueLeaves ==
    {NoKind, NullValue, BoolValue(TRUE), StringValue(<<"a">>),
     NumberValue(Fin(TRUE, 3 * (ONE \div 2))), NumberValue(NaN), NumberValue(Inf(FALSE))}
\* The Structs of the children l, under every set of as many keys.
StructsOf(l) ==
    { StructValue([k \in S |-> l[KeyIndex(S, k)]]) :
        S \in { S \in SUBSET Keys : Cardinality(S) = Len(l) } }
\* The values of n nodes, and the sequences of values of m nodes in all.
RECURSIVE ValuesOfSize(_), ValueListsOfSize(_)
ValueListsOfSize(m) ==
    IF m = 0 THEN {<<>>}
    ELSE UNION { { <<v>> \o rest : v \in ValuesOfSize(k), rest \in ValueListsOfSize(m - k) } :
                 k \in 1 .. m }
ValuesOfSize(n) ==
    (IF n = 1 THEN ValueLeaves ELSE {})
      \cup UNION { {ListValue(l)} \cup StructsOf(l) : l \in ValueListsOfSize(n - 1) }
\* Every value of at most MaxNodes nodes, and every number.
Values ==
    UNION { ValuesOfSize(n) : n \in 1 .. MaxNodes }
      \cup { NumberValue(x) : x \in F64Values }

\* The tokens of a JSON text: its numbers are finite.
TokenLeaves ==
    {TBool(TRUE), TI64(-1), TU64(2^MANT + 1), TF64(Fin(FALSE, 3 * (ONE \div 2))),
     TStr(<<"a">>), TUnit}
\* The mappings of the children l, under every choice of keys: a key may
\* come twice, and the keys come in any order.
MapsOf(l) ==
    { TMap([i \in 1 .. Len(l) |-> MapEntry(keys[i], l[i])]) :
        keys \in [1 .. Len(l) -> Keys] }
RECURSIVE TokensOfSize(_), TokenListsOfSize(_)
TokenListsOfSize(m) ==
    IF m = 0 THEN {<<>>}
    ELSE UNION { { <<v>> \o rest : v \in TokensOfSize(k), rest \in TokenListsOfSize(m - k) } :
                 k \in 1 .. m }
TokensOfSize(n) ==
    (IF n = 1 THEN TokenLeaves ELSE {})
      \cup UNION { {TSeq(l)} \cup MapsOf(l) : l \in TokenListsOfSize(n - 1) }
\* {"a": 1, "b": [true, null]}
ExampleMapping ==
    TMap(<<MapEntry(<<"a">>, TU64(1)),
           MapEntry(<<"b">>, TSeq(<<TBool(TRUE), TUnit>>))>>)
\* Every token of at most MaxNodes nodes, every integer, every finite number
\* and every other token.
ValueTokens ==
    UNION { TokensOfSize(n) : n \in 1 .. MaxNodes } \cup {ExampleMapping}
      \cup IntegerTokens \cup { TF64(x) : x \in { y \in F64Values : y.k = "fin" } }
      \cup { TStr(s) : s \in OtherStrings } \cup OtherTokens

ByteValues == {0, 1, 77, 255}
ByteSeqs == UNION { [1 .. n -> ByteValues] : n \in 0 .. MaxBytes }
Options(S) == { Some(v) : v \in S } \cup {None}

\* The tokens of the elements of a sequence and of the values of a mapping,
\* and the texts of the keys that each codec of keys may meet.
ElemTokens ==
    {TBool(TRUE), TU64(1), TU64(2), TStr(<<"a">>), TStr(<<"X">>),
     TStr(<<"B", "A", "R">>), TUnit, TBytes}
SeqTokens ==
    { TSeq(l) : l \in UNION { [1 .. n -> ElemTokens] : n \in 0 .. MaxLen } }
MapValTokens ==
    {TBool(TRUE), TU64(1), TStr(<<"X">>), TStr(<<"B", "A", "R">>), TBytes}
KeyTexts(kc) ==
    CASE kc = "bool_map_key" -> {STR_TRUE, STR_FALSE, <<"m", "a", "y", "b", "e">>}
      [] kc = "i64" -> {<<"2">>, <<"+", "2">>, <<"1", "0">>, <<"x">>}
      [] OTHER -> Keys
MapTokens(kc) ==
    { TMap(l) : l \in UNION { [1 .. n -> { MapEntry(k, v) : k \in KeyTexts(kc),
                                                            v \in MapValTokens }] :
                              n \in 0 .. MaxEntries } }
\* The ordinals of the elements of a repeated enum field, the keys of each
\* codec of keys and the values of each codec of values.
ElemOrdinals == {0, 1, 2}
KeyValues(kc) ==
    CASE kc = "bool_map_key" -> BOOLEAN
      [] kc = "i64" -> {-1, 2, 10}
      [] OTHER -> Keys
MapValues(vc) ==
    IF vc = "enum" THEN ElemOrdinals ELSE {NullValue, BoolValue(TRUE), NoKind}
MapsOver(kc, vc) ==
    UNION { [S -> MapValues(vc)] :
            S \in { S \in SUBSET KeyValues(kc) : Cardinality(S) <= MaxEntries } }
\* The enum types a module is instantiated with: one for each enum when its
\* values are of an enum, none otherwise.
EnumsOf(mod) == IF MapShapes[mod].val = "enum" THEN EnumTypes ELSE {NoEnum}
\* The values is_default is asked about, by type.
DefaultTypes == {"bool", "i32", "i64", "f64", "String", "Vec", "Option"}
ValuesOf(T) ==
    CASE T = "bool" -> BOOLEAN
      [] T = "i32" -> MIN(I32) .. MAX(I32)
      [] T = "i64" -> MIN(I64) .. MAX(I64)
      [] T = "f64" -> F64Values
      [] T = "String" -> OtherStrings
      [] T = "Vec" -> ByteSeqs
      [] OTHER -> Options(MIN(I32) .. MAX(I32))

(***************************************************************************)
(* The state machine: one step is one call of a serializer or of a         *)
(* deserializer; Return ends the call.                                     *)
(***************************************************************************)
Codec(fn, mod, opt, E) == [fn |-> fn, mod |-> mod, opt |-> opt, E |-> E]
Idle == Codec("idle", "", FALSE, NoEnum)

\* The variables hold the arguments and results of every codec, which are of
\* as many types.  Each value is kept under the name of its type, so that two
\* values of different types are never compared.
Typed(type, x) == [k \in {type} |-> x]
Untyped(f) == f[CHOOSE k \in DOMAIN f : TRUE]
TypeOf(mod, opt) == IF opt THEN <<"Option", mod>> ELSE <<mod>>
TokenType == <<"token">>
ErrorType == <<"error">>
TypedResult(type, r) ==
    [ok |-> r.ok, v |-> Typed(IF r.ok THEN type ELSE ErrorType, r.v)]

\* What a JSON reader hands to a visitor for a fragment on the wire.  A
\* number written from an f32 is written with the digits that tell it from
\* the other f32 values and is read back as an f64: any f64 whose nearest
\* f32 is the one written.
Reader(frag) ==
    IF frag.t = "f32"
    THEN { TF64(y) : y \in { x \in F64Values :
               /\ x.k = "fin" /\ x.neg = frag.x.neg
               /\ RoundNat(x.m, MANT32, 1) = frag.x.m } }
    ELSE {frag}

\* The tokens a deserializer call may be given: a fresh one, or the one read
\* from the fragment that the serializer of the same codec has just written.
Feed(mod, opt, E, fresh) ==
    IF codec = Idle THEN fresh
    ELSE IF codec = Codec("serialize", mod, opt, E) /\ wire.some
    THEN Reader(wire.v.frag)
    ELSE {}

\* A call of a deserializer that ends with run.r after the calls run.calls
\* on the accessor of the sequence or mapping it was given.
DeserializeRun(mod, opt, E, tok, run) ==
    /\ codec' = Codec("deserialize", mod, opt, E)
    /\ input' = Typed(TokenType, tok)
    /\ output' = TypedResult(TypeOf(mod, opt), run.r)
    /\ origin' = (codec # Idle)
    /\ calls' = run.calls
    /\ UNCHANGED wire
Deserialize(mod, opt, E, tok, result) ==
    DeserializeRun(mod, opt, E, tok, Run(result, <<>>))

\* A call of a serializer that ends with run.r after the calls run.calls on
\* the emitter of the sequence or mapping it opened.
SerializeRun(mod, opt, E, value, run) ==
    /\ codec' = Codec("serialize", mod, opt, E)
    /\ input' = Typed(TypeOf(mod, opt), value)
    /\ output' = TypedResult(TokenType, run.r)
    /\ origin' = FALSE
    /\ calls' = run.calls
    /\ wire' = IF run.r.ok
               THEN Some([val |-> Typed(TypeOf(mod, opt), value), frag |-> run.r.v])
               ELSE None
Serialize(mod, opt, E, value, result) ==
    SerializeRun(mod, opt, E, value, Run(result, <<>>))

Init ==
    /\ codec = Idle
    /\ input = Typed(TokenType, TNone)
    /\ output = TypedResult(TokenType, Err("idle"))
    /\ wire = None
    /\ origin = FALSE
    /\ calls = <<>>

int_deserialize ==
    \E T \in IntTypes, opt \in BOOLEAN :
      \E tok \in Feed(T.name, opt, NoEnum, NumericTokens) :
        Deserialize(T.name, opt, NoEnum, tok,
                    IF opt THEN IntOpt_visit(T, tok) ELSE Int_visit(T, tok))

int_serialize ==
    /\ codec = Idle
    /\ \E T \in {I64, U64}, opt \in BOOLEAN :
         \E value \in IF opt THEN Options(MIN(T) .. MAX(T)) ELSE MIN(T) .. MAX(T) :
           Serialize(T.name, opt, NoEnum, value,
                     IF opt THEN IntOpt_serialize(T, value) ELSE Int_serialize(T, value))

float_deserialize ==
    \E mod \in {"f32", "f64"}, opt \in BOOLEAN :
      \E tok \in Feed(mod, opt, NoEnum, NumericTokens) :
        Deserialize(mod, opt, NoEnum, tok,
                    CASE mod = "f64" /\ ~opt -> F64_visit(tok)
                      [] mod = "f64" /\ opt -> F64Opt_visit(tok)
                      [] mod = "f32" /\ ~opt -> F32_visit(tok)
                      [] OTHER -> F32Opt_visit(tok))

float_serialize ==
    /\ codec = Idle
    /\ \E mod \in {"f32", "f64"}, opt \in BOOLEAN :
         LET values == IF mod = "f64" THEN F64Values ELSE F32Values
         IN \E value \in IF opt THEN Options(values) ELSE values :
              Serialize(mod, opt, NoEnum, value,
                        CASE mod = "f64" /\ ~opt -> F64Serializer_serialize(value)
                          [] mod = "f64" /\ opt -> F64Opt_serialize(value)
                          [] mod = "f32" /\ ~opt -> F32Serializer_serialize(value)
                          [] OTHER -> F32Opt_serialize(value))

enum_deserialize ==
    \E E \in EnumTypes, opt \in BOOLEAN :
      \E tok \in Feed("enum", opt, E, NumericTokens) :
        Deserialize("enum", opt, E, tok,
                    IF opt THEN EnumOpt_visit(E, tok) ELSE Enum_visit(E, tok))

\* enum_serde::serialize and enum_opt::serialize
enum_serialize ==
    /\ codec = Idle
    /\ \E E \in EnumTypes, opt \in BOOLEAN :
         \E value \in IF opt THEN Options(MIN(I32) .. MAX(I32)) ELSE MIN(I32) .. MAX(I32) :
           Serialize("enum", opt, E, value,
                     IF opt THEN EnumOpt_serialize(E, value) ELSE Enum_serialize(E, value))

\* enum_serde::EnumSerializer, the serializer of enum map keys and elements
EnumSerializer_call ==
    /\ codec = Idle
    /\ \E E \in EnumTypes, value \in MIN(I32) .. MAX(I32) :
         Serialize("EnumSerializer", FALSE, E, value, EnumSerializer_serialize(E, value))

string_deserialize ==
    \E opt \in BOOLEAN :
      \E tok \in Feed("string", opt, NoEnum, PlainTokens) :
        Deserialize("string", opt, NoEnum, tok,
                    IF opt THEN StringOpt_visit(tok) ELSE String_visit(tok))

bool_deserialize ==
    \E opt \in BOOLEAN :
      \E tok \in Feed("bool", opt, NoEnum, PlainTokens) :
        Deserialize("bool", opt, NoEnum, tok,
                    IF opt THEN BoolOpt_visit(tok) ELSE Bool_visit(tok))

bool_map_key_deserialize ==
    \E tok \in Feed("bool_map_key", FALSE, NoEnum, PlainTokens) :
      Deserialize("bool_map_key", FALSE, NoEnum, tok, BoolKey_visit(tok))

bool_map_key_serialize ==
    /\ codec = Idle
    /\ \E value \in BOOLEAN :
         Serialize("bool_map_key", FALSE, NoEnum, value, BoolKeySerializer_serialize(value))

vec_u8_deserialize ==
    \E opt \in BOOLEAN :
      \E tok \in Feed("vec_u8", opt, NoEnum, PlainTokens) :
        Deserialize("vec_u8", opt, NoEnum, tok,
                    IF opt THEN VecU8Opt_visit(tok) ELSE VecU8_visit(tok))

vec_u8_serialize ==
    /\ codec = Idle
    /\ \E opt \in BOOLEAN :
         \E value \in IF opt THEN Options(ByteSeqs) ELSE ByteSeqs :
           Serialize("vec_u8", opt, NoEnum, value,
                     IF opt THEN VecU8Opt_serialize(value)
                     ELSE VecU8Serializer_serialize(value))

Duration_deserialize ==
    \E tok \in Feed("Duration", FALSE, NoEnum,
                    { TStr(s) : s \in DurationStrings } \cup PlainTokens) :
      Deserialize("Duration", FALSE, NoEnum, tok, Duration_visit(tok))

Timestamp_deserialize ==
    \E tok \in Feed("Timestamp", FALSE, NoEnum,
                    { TStr(s) : s \in TimestampStrings } \cup PlainTokens) :
      Deserialize("Timestamp", FALSE, NoEnum, tok, Timestamp_visit(tok))

\* impl Deserialize for Value
Value_deserialize ==
    \E tok \in Feed("Value", FALSE, NoEnum, ValueTokens) :
      DeserializeRun("Value", FALSE, NoEnum, tok,
                     Run(Value_visit(tok), ValueVisitor_calls(tok)))

\* impl Serialize for Value
Value_serialize_call ==
    /\ codec = Idle
    /\ \E value \in Values :
         Serialize("Value", FALSE, NoEnum, value, Value_serialize(value))

empty_deserialize ==
    \E opt \in BOOLEAN :
      \E tok \in Feed("empty", opt, NoEnum, MapTokens("String") \cup PlainTokens) :
        Deserialize("empty", opt, NoEnum, tok,
                    IF opt THEN EmptyOpt_visit(tok) ELSE Empty_visit(tok))

empty_serialize ==
    /\ codec = Idle
    /\ \E opt \in BOOLEAN :
         \E value \in IF opt THEN Options({Unit}) ELSE {Unit} :
           Serialize("empty", opt, NoEnum, value,
                     IF opt THEN EmptyOpt_serialize(value) ELSE Empty_serialize(value))

vec_deserialize ==
    \E tok \in Feed("vec", FALSE, NoEnum, SeqTokens \cup PlainTokens) :
      DeserializeRun("vec", FALSE, NoEnum, tok, Vec_visit(tok))

repeated_deserialize ==
    \E E \in EnumTypes :
      \E tok \in Feed("repeated", FALSE, E, SeqTokens \cup PlainTokens) :
        DeserializeRun("repeated", FALSE, E, tok, Repeated_visit(E, tok))

repeated_serialize ==
    /\ codec = Idle
    /\ \E E \in EnumTypes :
         \E value \in UNION { [1 .. n -> ElemOrdinals] : n \in 0 .. MaxLen } :
           SerializeRun("repeated", FALSE, E, value, Repeated_serialize(E, value))

\* deserialize of the eight map modules
map_deserialize ==
    \E mod \in MapMods :
      \E E \in EnumsOf(mod) :
        \E tok \in Feed(mod, FALSE, E, MapTokens(MapShapes[mod].key) \cup PlainTokens) :
          DeserializeRun(mod, FALSE, E, tok, Map_visit(mod, E, tok))

\* serialize of the six map modules that have one
map_serialize ==
    /\ codec = Idle
    /\ \E mod \in MapMods \ {"map", "btree_map"} :
         \E E \in EnumsOf(mod) :
           \E value \in MapsOver(MapShapes[mod].key, MapShapes[mod].val) :
             \E order \in Map_iter(mod, DOMAIN value) :
               SerializeRun(mod, FALSE, E, value, Map_serialize(mod, E, value, order))

is_default_call ==
    /\ codec = Idle
    /\ \E T \in DefaultTypes :
         \E t \in ValuesOf(T) :
           /\ codec' = Codec("is_default", T, FALSE, NoEnum)
           /\ input' = Typed(<<T>>, t)
           /\ output' = TypedResult(<<"bool">>, Ok(is_default(T, t)))
           /\ wire' = None
           /\ origin' = FALSE
           /\ calls' = <<>>

\* The call is over: the next one starts from nothing.
Return ==
    /\ codec # Idle
    /\ codec' = Idle
    /\ input' = Typed(TokenType, TNone)
    /\ output' = TypedResult(TokenType, Err("idle"))
    /\ wire' = None
    /\ origin' = FALSE
    /\ calls' = <<>>

Next ==
    \/ int_deserialize
    \/ int_serialize
    \/ float_deserialize
    \/ float_serialize
    \/ enum_deserialize
    \/ enum_serialize
    \/ EnumSerializer_call
    \/ string_deserialize
    \/ bool_deserialize
    \/ bool_map_key_deserialize
    \/ bool_map_key_serialize
    \/ vec_u8_deserialize
    \/ vec_u8_serialize
    \/ Duration_deserialize
    \/ Timestamp_deserialize
    \/ Value_deserialize
    \/ Value_serialize_call
    \/ empty_deserialize
    \/ empty_serialize
    \/ vec_deserialize
    \/ repeated_deserialize
    \/ repeated_serialize
    \/ map_deserialize
    \/ map_serialize
    \/ is_default_call
    \/ Return

Spec == Init /\ [][Next]_vars

(***************************************************************************)
(* Properties                                                              *)
(***************************************************************************)
\* The argument and the result of the call, as the codec sees them.
Input == Untyped(input)
Output == [ok |-> output.ok, v |-> Untyped(output.v)]
Decoding(mod) == codec.fn = "deserialize" /\ codec.mod = mod
Encoding(mod) == codec.fn = "serialize" /\ codec.mod = mod
IntMods == { T.name : T \in IntTypes }
IntType(mod) == CHOOSE T \in IntTypes : T.name = mod
\* The call returned v: Some(v) from an optional decoder.
Returned(v) == Output.ok /\ Output.v = (IF codec.opt THEN Some(v) ELSE v)
\* The JSON number n as a reader hands it over: negative numbers to
\* visit_i64, the others to visit_u64.
NativeNumber(n) == IF n < 0 THEN TI64(n) ELSE TU64(n)
\* ^-?[0-9]+$
IsDecimalText(s) ==
    LET body == IF s # <<>> /\ s[1] = "-" THEN Tail(s) ELSE s
    IN body # <<>> /\ AllDigits(body)
DecimalTextValue(s) ==
    IF s[1] = "-" THEN -DigitsVal(Tail(s)) ELSE DigitsVal(s)

\* C1: for every scalar codec with both directions (i64, u64, f32, f64,
\* bytes, bool map key) and every value v, decoding the fragment written by
\* encoding v succeeds and yields v.
C1_RoundTrip ==
    ( /\ codec.fn = "deserialize" /\ origin /\ ~codec.opt
      /\ codec.mod \in {"i64", "u64", "f32", "f64", "vec_u8", "bool_map_key"} )
      => Output.ok /\ Output.v = Untyped(wire.v.val)

\* C2: i64 and u64 encode to a JSON string of the decimal digits of x (with
\* a leading '-' when negative), never to a number; decoding the native
\* number x and decoding that string both succeed and yield x.
C2_DecimalString ==
    \A T \in {I64, U64} :
      /\ (Encoding(T.name) /\ ~codec.opt) =>
           /\ Output.ok /\ Output.v.t = "str"
           /\ IsDecimalText(Output.v.s)
           /\ DecimalTextValue(Output.v.s) = Input
      /\ (Decoding(T.name) /\ ~codec.opt /\ origin) =>
           Output.ok /\ Output.v = Untyped(wire.v.val)
      /\ ( /\ Decoding(T.name) /\ ~codec.opt /\ ~origin
           /\ Input.t \in {"i64", "u64"}
           /\ InRange(T, Input.n) /\ Input = NativeNumber(Input.n) ) =>
           Output.ok /\ Output.v = Input.n

\* The string written for the least i64 has been decoded back to it.
C2_Witness ==
    /\ Decoding("i64") /\ ~codec.opt /\ origin
    /\ Untyped(wire.v.val) = MIN(I64) /\ wire.v.frag.t = "str"
    /\ Output.ok /\ Output.v = MIN(I64)

\* C3: every integer decoder, given a native integer token n (signed or
\* unsigned), returns exactly n when n is in the range of its type and fails
\* otherwise.
C3_NativeIntegers ==
    (codec.fn = "deserialize" /\ codec.mod \in IntMods /\ Input.t \in {"i64", "u64"})
      => IF InRange(IntType(codec.mod), Input.n)
         THEN Returned(Input.n) ELSE ~Output.ok

\* C4: an integer decoder accepts a float token f only if f is integral and
\* within the range of its type, and then returns f.
C4_FloatTokens ==
    ( /\ codec.fn = "deserialize" /\ codec.mod \in IntMods
      /\ Input.t = "f64" /\ Output.ok )
      => /\ Input.x.k = "fin"
         /\ Input.x.m % ONE = 0
         /\ InRange(IntType(codec.mod), Num(Input.x) \div ONE)
         /\ Returned(Num(Input.x) \div ONE)

\* The exact value of the text of a number.
IsIntegralText(t) == t.k = "num" /\ (t.e >= 0 \/ t.d % 10^(-t.e) = 0)
IntegralTextValue(t) ==
    LET a == IF t.e >= 0 THEN t.d * 10^t.e ELSE t.d \div 10^(-t.e)
    IN IF t.neg THEN -a ELSE a
IsFloatForm(s) ==
    Contains(s, "e") \/ Contains(s, "E") \/ EndsWith(s, <<".", "0">>)

C5_Decoded(T, s, t) ==
    /\ (IsFloatForm(s) /\ IsIntegralText(t) /\ InRange(T, IntegralTextValue(t)))
         => Returned(IntegralTextValue(t))
    /\ (t.k = "num" /\ ~IsIntegralText(t)) => ~Output.ok
    /\ (~IsFloatForm(s) /\ Output.ok)
         => /\ t.k = "num" /\ t.e = 0 /\ ~Contains(s, ".")
            /\ Returned(IntegralTextValue(t))

\* C5: for an integer decoder, a string holding an integral in-range value k
\* with a trailing ".0" or in scientific notation decodes to k; a string
\* holding a non-integral number fails; a string without 'e', 'E' or a
\* trailing ".0" is read as an exact integer of the type.
C5_NumericStrings ==
    ( /\ codec.fn = "deserialize" /\ codec.mod \in IntMods
      /\ Input.t = "str" /\ ~origin )
      => C5_Decoded(IntType(codec.mod), Input.s, ParseDecimal(Input.s))

\* C6: decoding a string that is not the name of a variant fails, in the
\* required and in the optional enum decoder.
C6_UnknownName ==
    (Decoding("enum") /\ Input.t = "str" /\ Input.s \notin Names(codec.E))
      => ~Output.ok

C6_Witness ==
    /\ Decoding("enum") /\ codec.opt /\ codec.E = Proto3Enum
    /\ Input = TStr(<<"b", "o", "g", "u", "s">>)
    /\ ~Output.ok /\ Output.v = "invalid_value"

\* C7: for a native integer token n, the enum decoders return n when n is a
\* known ordinal and the default ordinal of the enum otherwise.
C7_UnknownNumber ==
    (Decoding("enum") /\ Input.t \in {"i64", "u64"})
      => Returned(IF Input.n \in Ordinals(codec.E)
                  THEN Input.n ELSE codec.E.default)

\* C8: the required enum decoder maps a unit/null token to the default
\* ordinal of the enum type.
C8_UnitIsDefault ==
    (Decoding("enum") /\ ~codec.opt /\ Input = TUnit)
      => Output.ok /\ Output.v = codec.E.default

\* C9: enum encode writes the name of the variant as a JSON string for a
\* known ordinal; for any other ordinal it fails and writes nothing.  The
\* optional encoder does the same for a present value.
C9_EnumEncode ==
    ( /\ codec.fn = "serialize" /\ codec.mod \in {"enum", "EnumSerializer"}
      /\ (codec.opt => Input.some) )
      => LET n == IF codec.opt THEN Input.v ELSE Input
         IN IF n \in Ordinals(codec.E)
            THEN /\ Output.ok /\ Output.v.t = "str"
                 /\ [name |-> Output.v.s, ord |-> n] \in codec.E.variants
                 /\ wire.some /\ Untyped(wire.v.val) = Input /\ wire.v.frag = Output.v
            ELSE ~Output.ok /\ ~wire.some

\* The optional encoder has refused a present ordinal that names no variant.
C9_Witness ==
    /\ Encoding("enum") /\ codec.opt /\ codec.E = Proto2Enum
    /\ Input.some /\ Input.v = 2
    /\ ~Output.ok /\ ~wire.some

\* C10: a decoded Duration has seconds and nanos of the same sign and
\* |nanos| < 1_000_000_000; "-1.5s" gives {seconds: -1, nanos: -500000000}.
C10_CoSign ==
    (Decoding("Duration") /\ Output.ok)
      => /\ \/ Output.v.seconds >= 0 /\ Output.v.nanos >= 0
            \/ Output.v.seconds <= 0 /\ Output.v.nanos <= 0
         /\ -NANOS_PER_SEC < Output.v.nanos /\ Output.v.nanos < NANOS_PER_SEC
         /\ Input = TStr(<<"-", "1", ".", "5", "s">>)
              => Output.v = [seconds |-> -1, nanos |-> -500000000]

C10_Witness ==
    /\ Decoding("Duration")
    /\ Input = TStr(<<"-", "1", ".", "5", "s">>)
    /\ Output.ok /\ Output.v.seconds = -1 /\ Output.v.nanos = -500000000

\* C11: Duration decode of a string never aborts: it returns a Duration or a
\* decode error; a string without the 's' suffix, a remainder that is not a
\* number, and a remainder that is NaN, infinite or too large give an error.
C11_DurationTotal ==
    (Decoding("Duration") /\ Input.t = "str")
      => /\ Output.ok \/ Output.v # Panic.v
         /\ ~EndsWith(Input.s, <<"s">>) => ~Output.ok
         /\ (EndsWith(Input.s, <<"s">>)
              /\ LET seconds == ParseFloat(StripSuffix(Input.s, "s").v, MANT)
                 IN \/ ~seconds.ok
                    \/ seconds.v.k # "fin"
                    \/ seconds.v.m \div ONE > MAX(I64))
              => ~Output.ok

\* C12: Timestamp decode of a string succeeds exactly when the RFC 3339
\* parser returns a (seconds, nanos) pair and then returns that pair; when
\* the parser returns nothing the decode fails with an invalid-value error;
\* every other token, null included, fails.
C12_TimestampDecode ==
    Decoding("Timestamp")
      => /\ (Input.t = "str" /\ parse_timestamp(Input.s).some)
              => (Output.ok /\ Output.v = parse_timestamp(Input.s).v)
         /\ (Input.t = "str" /\ ~parse_timestamp(Input.s).some)
              => (~Output.ok /\ Output.v = "invalid_value")
         /\ Input.t # "str" => ~Output.ok

C12_Witness ==
    /\ Decoding("Timestamp")
    /\ Input = TStr(<<"1", "9", "7", "0", "-", "0", "1", "-", "0", "1", "T", "0", "0", ":", "0", "0", ":", "0", "1", ".", "5", "Z">>)
    /\ Output.ok /\ Output.v = [seconds |-> 1, nanos |-> 500000000]

\* The values directly inside a Struct or a List
Children(v) ==
    CASE v.kind = "struct" -> { v.fields[k] : k \in DOMAIN v.fields }
      [] v.kind = "list" -> { v.values[i] : i \in 1 .. Len(v.values) }
      [] OTHER -> {}
\* The tree has a Value with no tag set, or a Number that is not finite.
RECURSIVE HasInvalidNode(_)
HasInvalidNode(v) ==
    \/ v.kind = "none"
    \/ v.kind = "number" /\ v.x.k # "fin"
    \/ \E c \in Children(v) : HasInvalidNode(c)

\* C13: encoding a dynamic Value fails if and only if its tree contains, at
\* any depth inside Structs and Lists, a Value with no tag set or a Number
\* that is NaN or infinite.
C13_ValueEncodeFails ==
    Encoding("Value") => (~Output.ok <=> HasInvalidNode(Input))

C13_Witness ==
    /\ Encoding("Value")
    /\ Input = StructValue([k \in {<<"a">>} |-> ListValue(<<NoKind>>)])
    /\ ~Output.ok /\ Output.v = "invalid value: variant must be set"

\* The integer n as a float of exactly that value
ExactNumber(n) == Fin(n < 0, (IF n < 0 THEN -n ELSE n) * ONE)
\* The value of the last entry of the key k
LastEntry(entries, k) ==
    entries[CHOOSE i \in 1 .. Len(entries) :
              /\ entries[i].key = k
              /\ \A j \in i + 1 .. Len(entries) : entries[j].key # k].val
\* The value v has the tag of the token tok and holds what the token holds,
\* the elements and the entries in turn; an integer n is held as exactly n
\* (exact), or as n as f64.
RECURSIVE MatchesToken(_, _, _)
MatchesToken(v, tok, exact) ==
    CASE tok.t = "bool" -> v = BoolValue(tok.b)
      [] tok.t = "str" -> v = StringValue(tok.s)
      [] tok.t \in {"unit", "none"} -> v = NullValue
      [] tok.t = "f64" -> v = NumberValue(tok.x)
      [] tok.t \in {"i64", "u64"} ->
           v = NumberValue(IF exact THEN ExactNumber(tok.n) ELSE IntAsF64(tok.n))
      [] tok.t = "seq" ->
           /\ v.kind = "list"
           /\ Len(v.values) = Len(tok.elems)
           /\ \A i \in 1 .. Len(tok.elems) : MatchesToken(v.values[i], tok.elems[i], exact)
      [] tok.t = "map" ->
           /\ v.kind = "struct"
           /\ DOMAIN v.fields = { tok.entries[i].key : i \in 1 .. Len(tok.entries) }
           /\ \A k \in DOMAIN v.fields :
                MatchesToken(v.fields[k], LastEntry(tok.entries, k), exact)
      [] OTHER -> FALSE

\* C14: dynamic Value decode maps each JSON token to the matching tag:
\* boolean to Bool, string to String, null/unit to Null, sequence to List
\* with each element decoded in order, mapping to Struct with each entry
\* decoded, and every integer token n to Number holding exactly n.
C14_TokenToTag ==
    Decoding("Value") => (Output.ok /\ MatchesToken(Output.v, Input, TRUE))

\* C14 as amended: the same, with every integer token n held as n as f64:
\* exactly n when an f64 holds n (whenever |n| <= 2^53), the nearest f64
\* otherwise.
C14_TokenToTagNearest ==
    Decoding("Value") => (Output.ok /\ MatchesToken(Output.v, Input, FALSE))

C14_Witness ==
    /\ Decoding("Value")
    /\ Input = ExampleMapping
    /\ Output.ok
    /\ Output.v = StructValue([k \in Keys |->
                     IF k = <<"a">> THEN NumberValue(Fin(FALSE, ONE))
                     ELSE ListValue(<<BoolValue(TRUE), NullValue>>)])

\* Every Value of the tree has a tag set.
RECURSIVE AllTagged(_)
AllTagged(v) == v.kind # "none" /\ \A c \in Children(v) : AllTagged(c)

\* C15: for every dynamic Value v with a tag set at every node and only
\* finite Numbers, decode(encode(v)) succeeds and equals v; and every Value
\* a successful decode returns has a tag set at every node, and encoding it
\* succeeds.
C15_ValueRoundTrip ==
    /\ (Encoding("Value") /\ ~HasInvalidNode(Input)) => Output.ok
    /\ (Decoding("Value") /\ origin)
         => (Output.ok /\ Output.v = Untyped(wire.v.val))
    /\ (Decoding("Value") /\ Output.ok)
         => (AllTagged(Output.v) /\ Value_serialize(Output.v).ok)

C15_Witness ==
    /\ Decoding("Value") /\ origin
    /\ Untyped(wire.v.val)
         = StructValue([k \in Keys |->
              IF k = <<"a">> THEN NullValue ELSE StringValue(<<"a">>)])
    /\ Input.t = "map" /\ Input.entries[2].val = TStr(<<"a">>)
    /\ Output.ok /\ Output.v = Untyped(wire.v.val)

\* The orders in which n entries may come
Orders(n) == { p \in [1 .. n -> 1 .. n] : \A i, j \in 1 .. n : p[i] = p[j] => i = j }
\* The same entries in every order decode to the value returned.
AnyOrderSameValue ==
    \A p \in Orders(Len(Input.entries)) :
      /\ Value_visit(TMap([i \in 1 .. Len(Input.entries) |-> Input.entries[p[i]]])).ok
      /\ Value_visit(TMap([i \in 1 .. Len(Input.entries) |-> Input.entries[p[i]]])).v
           = Output.v
\* The entries of a mapping come by ascending key.
AscendingKeys(entries) ==
    \A i \in 1 .. Len(entries) - 1 : StrLess(entries[i].key, entries[i + 1].key)
NoKeyTwice(entries) ==
    \A i, j \in 1 .. Len(entries) : entries[i].key = entries[j].key => i = j

\* C16: two JSON mappings with the same entries in different orders decode
\* to equal Structs, and encoding a decoded Struct always emits its entries
\* in ascending key order.
C16_OrderInsensitive ==
    /\ (Decoding("Value") /\ Input.t = "map")
         => /\ Output.ok /\ AnyOrderSameValue
            /\ Value_serialize(Output.v).ok
            /\ AscendingKeys(Value_serialize(Output.v).v.entries)
    /\ (Encoding("Value") /\ Input.kind = "struct" /\ Output.ok)
         => AscendingKeys(Output.v.entries)

\* C16 as amended: the same for two JSON mappings in which no key comes
\* twice.
C16_OrderInsensitiveDistinctKeys ==
    /\ (Decoding("Value") /\ Input.t = "map" /\ NoKeyTwice(Input.entries))
         => /\ Output.ok /\ AnyOrderSameValue
            /\ Value_serialize(Output.v).ok
            /\ AscendingKeys(Value_serialize(Output.v).v.entries)
    /\ (Encoding("Value") /\ Input.kind = "struct" /\ Output.ok)
         => AscendingKeys(Output.v.entries)

C16_Witness ==
    /\ Decoding("Value")
    /\ Input = TMap(<<MapEntry(<<"b">>, TBool(TRUE)), MapEntry(<<"a">>, TUnit)>>)
    /\ Output.ok
    /\ Value_serialize(Output.v)
         = Ok(TMap(<<MapEntry(<<"a">>, TUnit), MapEntry(<<"b">>, TBool(TRUE))>>))

\* The scalar and enum types, and the zero value of each.
ScalarMods == IntMods \cup {"f32", "f64", "enum", "string", "bool", "vec_u8"}
ZeroValue(mod) ==
    CASE mod \in IntMods \cup {"enum"} -> 0
      [] mod \in {"f32", "f64"} -> Fin(FALSE, 0)
      [] mod = "bool" -> FALSE
      [] OTHER -> <<>>
\* What the required encoder of the codec emits for v.
RequiredEncoding(v) ==
    CASE codec.mod \in {"i64", "u64"} -> Int_serialize(IntType(codec.mod), v)
      [] codec.mod = "f64" -> F64Serializer_serialize(v)
      [] codec.mod = "f32" -> F32Serializer_serialize(v)
      [] codec.mod = "vec_u8" -> VecU8Serializer_serialize(v)
      [] codec.mod = "enum" -> Enum_serialize(codec.E, v)

\* C17: a required scalar or enum decoder maps a null/unit token to the zero
\* value of the type (false, 0, empty string, empty bytes); an optional
\* decoder maps a null/unit/none token to not-present; an optional encoder
\* (i64, u64, f32, f64, bytes, enum) emits null for not-present and, for a
\* present value, what the required encoder emits.
C17_NullHandling ==
    /\ (codec.fn = "deserialize" /\ codec.mod \in ScalarMods /\ ~codec.opt
          /\ Input.t = "unit")
         => (Output.ok /\ Output.v = ZeroValue(codec.mod))
    /\ (codec.fn = "deserialize" /\ codec.mod \in ScalarMods /\ codec.opt
          /\ Input.t \in {"unit", "none"})
         => (Output.ok /\ Output.v = None)
    /\ (codec.fn = "serialize" /\ codec.mod \in ScalarMods /\ codec.opt)
         => IF Input.some
            THEN /\ Output.ok = RequiredEncoding(Input.v).ok
                 /\ Output.v = RequiredEncoding(Input.v).v
            ELSE Output.ok /\ Output.v = TUnit

C17_Witness ==
    /\ Decoding("string") /\ codec.opt
    /\ Input = TUnit
    /\ Output.ok /\ Output.v = None

\* What the required and the optional decoder of the codec's type return
\* for a token.
RequiredVisit(tok) ==
    CASE codec.mod \in IntMods -> Int_visit(IntType(codec.mod), tok)
      [] codec.mod = "f64" -> F64_visit(tok)
      [] codec.mod = "f32" -> F32_visit(tok)
      [] codec.mod = "enum" -> Enum_visit(codec.E, tok)
      [] codec.mod = "string" -> String_visit(tok)
      [] codec.mod = "bool" -> Bool_visit(tok)
      [] codec.mod = "vec_u8" -> VecU8_visit(tok)
OptionalVisit(tok) ==
    CASE codec.mod \in IntMods -> IntOpt_visit(IntType(codec.mod), tok)
      [] codec.mod = "f64" -> F64Opt_visit(tok)
      [] codec.mod = "f32" -> F32Opt_visit(tok)
      [] codec.mod = "enum" -> EnumOpt_visit(codec.E, tok)
      [] codec.mod = "string" -> StringOpt_visit(tok)
      [] codec.mod = "bool" -> BoolOpt_visit(tok)
      [] codec.mod = "vec_u8" -> VecU8Opt_visit(tok)

\* C18: for every scalar and enum type and every token other than
\* null/unit/none, the optional decoder fails exactly when the required
\* decoder fails, and otherwise returns present(v) for the v the required
\* decoder returns.
C18_OptionalAgrees ==
    (codec.fn = "deserialize" /\ codec.mod \in ScalarMods
       /\ Input.t \notin {"unit", "none"})
      => IF codec.opt
         THEN /\ Output.ok = RequiredVisit(Input).ok
              /\ Output.ok => Output.v = Some(RequiredVisit(Input).v)
         ELSE /\ OptionalVisit(Input).ok = Output.ok
              /\ Output.ok => OptionalVisit(Input).v = Some(Output.v)

C18_Witness ==
    /\ Decoding("i32") /\ codec.opt
    /\ Input = TStr(<<"3", ".", "0">>)
    /\ Output.ok /\ Output.v = Some(3)
    /\ RequiredVisit(Input) = Ok(3)

\* The float handed to a float encoder, when there is one.
FloatEncoded == IF codec.opt THEN Input.v ELSE Input
\* The text the float encoders write for a value that is not finite.
SpecialLiteral(x) ==
    CASE x.k = "nan" -> STR_NAN
      [] x.k = "inf" /\ ~x.neg -> STR_INFINITY
      [] x.k = "inf" /\ x.neg -> STR_NEG_INFINITY

\* C19: float encode (f32 and f64) emits the string "NaN" for NaN,
\* "Infinity" for positive infinity, "-Infinity" for negative infinity and
\* a native JSON number for every finite value; float decode maps the three
\* strings back to NaN, positive infinity and negative infinity.
C19_FloatSpecials ==
    /\ (codec.fn = "serialize" /\ codec.mod \in {"f32", "f64"}
          /\ (codec.opt => Input.some))
         => /\ Output.ok
            /\ IF FloatEncoded.k = "fin"
               THEN Output.v.t \in {"f32", "f64"} /\ Output.v.x = FloatEncoded
               ELSE Output.v = TStr(SpecialLiteral(FloatEncoded))
    /\ (codec.fn = "deserialize" /\ codec.mod \in {"f32", "f64"} /\ Input.t = "str")
         => /\ Input.s = STR_NAN => Returned(NaN)
            /\ Input.s = STR_INFINITY => Returned(Inf(FALSE))
            /\ Input.s = STR_NEG_INFINITY => Returned(Inf(TRUE))

C19_Witness ==
    /\ Encoding("f64") /\ ~codec.opt
    /\ Input = Inf(TRUE)
    /\ Output.ok /\ Output.v = TStr(STR_NEG_INFINITY)

\* The text is that of a number: digits, with a point or an exponent or not.
IsNumericText(s) == ParseDecimal(s).k = "num"
\* The native JSON number of the value of a numeric text: an integer token
\* for the digits of an integer of 64 bits, a float token otherwise.
NativeOfText(s) ==
    IF IsDecimalText(s) /\ DecimalTextValue(s) \in MIN(I64) .. MAX(U64)
    THEN NativeNumber(DecimalTextValue(s))
    ELSE TF64(ParseFloat(s, MANT).v)
OutsideF32(x) == FLt(x, F32_MIN) \/ FGt(x, F32_MAX)
\* What the required f32 decoder returns for a token, and the f32 returned
\* by the call.
F32Decoded(tok) == F32_visit(tok)
F32Returned == IF codec.opt THEN Output.v.v ELSE Output.v
\* x == y of two floats that are no NaN: the two zeros are equal.
SameFloat(x, y) == x = y \/ (x.k = "fin" /\ y.k = "fin" /\ x.m = 0 /\ y.m = 0)

\* C20: f32 decode rejects every numeric input whose value lies outside
\* [f32::MIN, f32::MAX], as a native JSON number and as a numeric string; a
\* native number and a numeric string of the same value give the same
\* outcome.
C20_F32Range ==
    /\ (Decoding("f32") /\ Input.t = "f64" /\ Input.x.k # "nan" /\ OutsideF32(Input.x))
         => ~Output.ok
    /\ (Decoding("f32") /\ Input.t = "str" /\ IsNumericText(Input.s))
         => /\ OutsideF32(ParseFloat(Input.s, MANT).v) => ~Output.ok
            /\ Output.ok = F32Decoded(NativeOfText(Input.s)).ok
            /\ Output.ok => SameFloat(F32Returned, F32Decoded(NativeOfText(Input.s)).v)

\* The map modules whose keys are bools, and the codecs of the running one.
BoolKeyed == { mod \in MapMods : MapShapes[mod].key = "bool_map_key" }
KeyCodec == MapShapes[codec.mod].key
ValCodec == MapShapes[codec.mod].val
\* The value of every entry of the mapping decodes, or encodes, by itself.
ValuesDecode(entries) ==
    \A i \in 1 .. Len(entries) :
      MyType_deserialize(ValCodec, codec.E, entries[i].val).ok
ValuesEncode(value) ==
    \A k \in DOMAIN value : MySeType_serialize(ValCodec, codec.E, value[k]).ok
BoolText(b) == IF b THEN STR_TRUE ELSE STR_FALSE

\* C21: for a bool-keyed map, encode writes each key as the JSON string
\* "true" or "false", never as a JSON boolean; decode reads the key "true" as
\* true and "false" as false, and fails as a whole on a mapping with any other
\* key.
C21_BoolKeys ==
    /\ (codec.fn = "serialize" /\ codec.mod \in BoolKeyed /\ ValuesEncode(Input))
         => /\ Output.ok /\ Output.v.t = "map"
            /\ Len(Output.v.entries) = Cardinality(DOMAIN Input)
            /\ { e.key : e \in { Output.v.entries[i] : i \in 1 .. Len(Output.v.entries) } }
                 = { BoolText(b) : b \in DOMAIN Input }
    /\ (codec.fn = "deserialize" /\ codec.mod \in BoolKeyed /\ Input.t = "map")
         => IF \E i \in 1 .. Len(Input.entries) :
                 Input.entries[i].key \notin {STR_TRUE, STR_FALSE}
            THEN ~Output.ok
            ELSE ValuesDecode(Input.entries)
                   => /\ Output.ok
                      /\ DOMAIN Output.v
                           = { Input.entries[i].key = STR_TRUE :
                                 i \in 1 .. Len(Input.entries) }

\* The mapping {"true": true, "false": true} that the encoder wrote is read
\* back as the map it was written from.
C21_Witness ==
    /\ Decoding("map_custom") /\ origin
    /\ Len(Input.entries) = 2
    /\ Output.ok /\ DOMAIN Output.v = BOOLEAN
    /\ Output.v = Untyped(wire.v.val)

\* C22: the decoder of bool map keys returns what the plain bool decoder
\* returns for every token that one accepts (a native boolean itself, false
\* for a unit/null token), true and false for the strings "true" and "false",
\* and rejects every other token.
C22_BoolKeyAccepts ==
    Decoding("bool_map_key")
      => IF Bool_visit(Input).ok
         THEN Output.ok /\ Output.v = Bool_visit(Input).v
         ELSE IF Input.t = "str" /\ Input.s \in {STR_TRUE, STR_FALSE}
         THEN Output.ok /\ Output.v = (Input.s = STR_TRUE)
         ELSE ~Output.ok

\* C23: the decoder of the empty message succeeds on a mapping with no entry
\* and fails on every mapping with at least one entry; its encoder always
\* writes a mapping with no entry.
C23_EmptyMessage ==
    /\ (Decoding("empty") /\ ~codec.opt /\ Input.t = "map")
         => (Output.ok <=> Input.entries = <<>>)
    /\ (Encoding("empty") /\ ~codec.opt)
         => Output.ok /\ Output.v = TMap(<<>>)

\* A mapping of one entry has been refused.
C23_Witness ==
    /\ Decoding("empty") /\ ~codec.opt
    /\ Input.t = "map" /\ Len(Input.entries) = 1
    /\ ~Output.ok

\* C24: the optional codec of the empty message tells absent from present:
\* a JSON null (a unit/null token) decodes to absent and an empty mapping to
\* present, absent is written as null and present as an empty mapping, and
\* what was written decodes to what it was written from.
C24_OptionalEmpty ==
    /\ (Decoding("empty") /\ codec.opt /\ Input = TUnit)
         => Output.ok /\ Output.v = None
    /\ (Decoding("empty") /\ codec.opt /\ Input = TMap(<<>>))
         => Output.ok /\ Output.v = Some(Unit)
    /\ (Encoding("empty") /\ codec.opt)
         => Output.ok /\ Output.v = (IF Input.some THEN TMap(<<>>) ELSE TUnit)
    /\ (Decoding("empty") /\ codec.opt /\ origin)
         => Output.ok /\ Output.v = Untyped(wire.v.val)

\* The modules of sequences, and what the decoder of the elements of the
\* running one returns for a token.
SeqMods == {"vec", "repeated"}
ElementVisit(tok) ==
    IF codec.mod = "vec" THEN Value_visit(tok) ELSE Enum_visit(codec.E, tok)

\* C25: the repeated decoders, plain and custom, return for a JSON sequence
\* of n elements that all decode the n results of decoding each element, in
\* the order of the input, and the empty sequence for a unit/null token; the
\* repeated encoder writes one element for each value, in the same order.
C25_RepeatedOrder ==
    /\ ( /\ codec.fn = "deserialize" /\ codec.mod \in SeqMods /\ Input.t = "seq"
         /\ \A i \in 1 .. Len(Input.elems) : ElementVisit(Input.elems[i]).ok )
         => /\ Output.ok
            /\ Len(Output.v) = Len(Input.elems)
            /\ \A i \in 1 .. Len(Input.elems) :
                 Output.v[i] = ElementVisit(Input.elems[i]).v
    /\ (codec.fn = "deserialize" /\ codec.mod \in SeqMods /\ Input = TUnit)
         => Output.ok /\ Output.v = <<>>
    /\ ( /\ Encoding("repeated")
         /\ \A i \in 1 .. Len(Input) : EnumSerializer_serialize(codec.E, Input[i]).ok )
         => /\ Output.ok /\ Output.v.t = "seq"
            /\ Len(Output.v.elems) = Len(Input)
            /\ \A i \in 1 .. Len(Input) :
                 Output.v.elems[i] = EnumSerializer_serialize(codec.E, Input[i]).v

\* ["BAR", null, 1] has been decoded to the ordinals 1, 0, 1.
C25_Witness ==
    /\ Decoding("repeated") /\ codec.E = Proto3Enum
    /\ Input = TSeq(<<TStr(<<"B", "A", "R">>), TUnit, TU64(1)>>)
    /\ Output.ok /\ Output.v = <<1, 0, 1>>

\* What the decoders of the keys and of the values of the running map module
\* return for the i-th entry of a mapping.
KeyVisit(entries, i) == MyType_deserialize(KeyCodec, codec.E, TStr(entries[i].key))
ValVisit(entries, i) == MyType_deserialize(ValCodec, codec.E, entries[i].val)
\* No later entry of the mapping has the decoded key of the i-th.
LastOfItsKey(entries, i) ==
    \A j \in i + 1 .. Len(entries) : KeyVisit(entries, j).v # KeyVisit(entries, i).v

\* C26: every map decoder returns the empty map for a unit/null token and,
\* for a JSON mapping, a map whose keys are exactly the decoded keys of the
\* entries; of the entries with the same decoded key, the value of the last
\* is the one kept.
C26_MapKeys ==
    /\ (codec.fn = "deserialize" /\ codec.mod \in MapMods /\ Input = TUnit)
         => Output.ok /\ Output.v = <<>>
    /\ (codec.fn = "deserialize" /\ codec.mod \in MapMods /\ Input.t = "map")
         => IF \A i \in 1 .. Len(Input.entries) :
                 KeyVisit(Input.entries, i).ok /\ ValVisit(Input.entries, i).ok
            THEN /\ Output.ok
                 /\ DOMAIN Output.v
                      = { KeyVisit(Input.entries, i).v : i \in 1 .. Len(Input.entries) }
                 /\ \A i \in 1 .. Len(Input.entries) :
                      LastOfItsKey(Input.entries, i)
                        => Output.v[KeyVisit(Input.entries, i).v]
                             = ValVisit(Input.entries, i).v
            ELSE ~Output.ok

\* {"2": 1, "+2": true}: both keys decode to 2, and the map holds the value
\* of the second entry.
C26_Witness ==
    /\ Decoding("btree_map_custom")
    /\ Input = TMap(<<MapEntry(<<"2">>, TU64(1)), MapEntry(<<"+", "2">>, TBool(TRUE))>>)
    /\ Output.ok /\ Output.v = [k \in {2} |-> BoolValue(TRUE)]

\* A collection decoder has been given the sequence or mapping it reads.
CollectionDecoding ==
    /\ codec.fn = "deserialize"
    /\ \/ codec.mod \in SeqMods /\ Input.t = "seq"
       \/ codec.mod \in MapMods /\ Input.t = "map"
       \/ codec.mod = "Value" /\ Input.t \in {"seq", "map"}
\* The elements of the sequence, or the entries of the mapping, given.
Items == IF Input.t = "seq" THEN Input.elems ELSE Input.entries
\* What decoding the i-th element or entry returns: for an entry the error
\* of its key, or else what decoding its value returns.
ItemVisit(i) ==
    CASE codec.mod \in SeqMods -> ElementVisit(Items[i])
      [] codec.mod \in MapMods ->
           IF KeyVisit(Items, i).ok THEN ValVisit(Items, i) ELSE KeyVisit(Items, i)
      [] Input.t = "seq" -> Value_visit(Items[i])
      [] OTHER -> Value_visit(Items[i].val)
FirstFailure ==
    CHOOSE i \in 1 .. Len(Items) :
      ~ItemVisit(i).ok /\ \A j \in 1 .. i - 1 : ItemVisit(j).ok

CollectionEncoding ==
    codec.fn = "serialize" /\ codec.mod \in {"repeated"} \cup MapMods
OpenOp == IF codec.mod = "repeated" THEN "serialize_seq" ELSE "serialize_map"
EmitOp == IF codec.mod = "repeated" THEN "serialize_element" ELSE "serialize_entry"
\* The orders in which the value given may be iterated: a sequence by its
\* indices, an ordered map by its keys ascending, a hash map in any order.
IterationOrders ==
    IF codec.mod = "repeated" THEN {[i \in 1 .. Len(Input) |-> i]}
    ELSE Map_iter(codec.mod, DOMAIN Input)
\* What encoding the element at the index k, or the entry of the key k,
\* returns.
ItemEncode(k) ==
    IF codec.mod = "repeated" THEN EnumSerializer_serialize(codec.E, Input[k])
    ELSE SerializeMap_serialize_entry(MySeType_serialize(KeyCodec, codec.E, k),
                                      MySeType_serialize(ValCodec, codec.E, Input[k]))
FirstEncodeFailure(order) ==
    CHOOSE i \in 1 .. Len(order) :
      ~ItemEncode(order[i]).ok /\ \A j \in 1 .. i - 1 : ItemEncode(order[j]).ok
\* The calls made are those of an iteration in this order.
FollowsOrder(order) ==
    /\ calls[1] = Call(OpenOp, TRUE, Len(order), TNone)
    /\ IF \A i \in 1 .. Len(order) : ItemEncode(order[i]).ok
       THEN /\ Output.ok
            /\ Len(calls) = Len(order) + 2
            /\ \A i \in 1 .. Len(order) :
                 calls[i + 1] = Call(EmitOp, TRUE, 0, ItemEncode(order[i]).v)
            /\ calls[Len(order) + 2] = Call("end", TRUE, 0, TNone)
       ELSE /\ ~Output.ok
            /\ Output.v = ItemEncode(order[FirstEncodeFailure(order)]).v
            /\ Len(calls) = FirstEncodeFailure(order) + 1
            /\ \A i \in 1 .. FirstEncodeFailure(order) - 1 :
                 calls[i + 1] = Call(EmitOp, TRUE, 0, ItemEncode(order[i]).v)
            /\ calls[Len(calls)] = Call(EmitOp, FALSE, 0, TNone)

\* C28: a collection encode (repeated, or a map of any shape) over n values
\* opens the sequence or mapping once with the length n, then emits the n
\* elements or entries in the order of the iteration, then closes once; it
\* never closes before all n are emitted, and when encoding an element fails
\* it returns that error after emitting the elements before it only, without
\* closing.
C28_EmitOrder ==
    CollectionEncoding => \E order \in IterationOrders : FollowsOrder(order)

\* {2: BAR, 10: <ordinal 2>} in an ordered map: the entry of 2 has been
\* emitted, the entry of 10 has failed, and the mapping has not been closed.
C28_Witness ==
    /\ Encoding("btree_map_custom_to_custom") /\ codec.E = Proto3Enum
    /\ Input = [k \in {2, 10} |-> IF k = 2 THEN 1 ELSE 2]
    /\ ~Output.ok /\ Output.v = "invalid enum value"
    /\ Len(calls) = 3
    /\ calls[2] = Call("serialize_entry", TRUE, 0,
                       MapEntry(<<"2">>, TStr(<<"B", "A", "R">>)))
    /\ ~calls[3].ok

\* C29: for every enum type whose lookups by name and by ordinal are inverse
\* to each other and every known ordinal o, decoding the name that encode
\* wrote for o returns o; and every ordinal that the required enum decoder
\* returns, from a name, a number or a unit/null token, is one that the enum
\* encoder accepts.
C29_EnumRoundTrip ==
    /\ (Decoding("enum") /\ ~codec.opt /\ origin)
         => /\ Input.t = "str"
            /\ Output.ok /\ Output.v = Untyped(wire.v.val)
    /\ (Decoding("enum") /\ ~codec.opt /\ Output.ok)
         => Enum_serialize(codec.E, Output.v).ok

\* C30: is_default(v) is true exactly when v is the zero-initialized value of
\* its type (false, 0, +0.0, the empty string, the empty sequence, None); the
\* call leaves v as it was, and its result depends on v alone.
C30_IsDefault ==
    codec.fn = "is_default"
      => Output.ok /\ (Output.v <=> Input = Default(codec.mod))

====
